---- MODULE Spec2Model ----
(***************************************************************************)
(* State-machine model of the reactive signal engine of wasmadeus:         *)
(*   src/src/signal/raw/broadcast.rs  (Broadcast: the subscriber list)     *)
(*   src/src/signal/raw/mod.rs        (RawSignal: RefCell data + Broadcast)*)
(*   src/src/signal/mod.rs            (Signal, SignalMut, Unsubscriber)    *)
(*                                                                         *)
(* The engine is single-threaded and reentrant: a callback may call back   *)
(* into the signal that is invoking it.  The model keeps the call stack    *)
(* explicitly: every function of the source that invokes a closure is a    *)
(* frame, and user closures (subscriber callbacks, mutation closures) may  *)
(* issue any public operation while they are the running frame.            *)
(***************************************************************************)
EXTENDS Integers, Sequences, FiniteSets, TLC

\* ------------------------------------------------------------------ bounds
NumVals == 2          \* values written by callers are 1..NumVals
MaxOps == 4           \* public operations issued on the source signal alone
MaxComposedOps == 3   \* public operations issued once a derived signal exists
MaxSubs == 3          \* subscriber ids handed out by one broadcast
MaxSignals == 2       \* RawSignal objects (the source and derived signals)
MaxTokens == 2        \* Unsubscriber values in existence
MaxStrong == 2        \* strong handles (Rc clones) held on one RawSignal
MaxSkip == 1          \* the number n given to skip
MaxTake == 1          \* the number n given to take

Values == 1..NumVals
None == 0             \* Option::None of the data cell

VARIABLES
    signals,   \* Seq of RawSignal: [broadcast, data, handles, upgraded, mutable]
    cells,     \* Seq of RefCell<Option<T>>: [value, borrows, mut]
    stack,     \* call stack, innermost frame last
    tokens,    \* Seq of Unsubscriber: [sig, id, some, owned, wrapped, gone]
    ret,       \* what the operation that returned last returned
    ops,       \* number of public operations issued so far
    panicked,  \* an unwrap() failed
    call,      \* history: the public operation issued last
    written,   \* history: per signal, the value of its last successful write
    refused,   \* history: the callbacks <<signal, id>> that had a write refused
    cancelled  \* history: the subscriptions Broadcast::unsubscribe was called on

vars == <<signals, cells, stack, tokens, ret, ops, panicked, call, written,
          refused, cancelled>>

\* --------------------------------------------------------- RefCell<Option<T>>
\* Faulty variant: a read is never refused.
TryBorrowOkAlways(c) == TRUE

\* RefCell::try_borrow succeeds iff the cell is not mutably borrowed.
TryBorrowOk(c) == ~c.mut

\* Faulty variant: a write is refused only while another write is in progress.
TryBorrowMutOkShared(c) == ~c.mut

\* RefCell::try_borrow_mut succeeds iff the cell is not borrowed at all.
TryBorrowMutOk(c) == ~c.mut /\ c.borrows = 0

NewCell(v) == [value |-> v, borrows |-> 0, mut |-> FALSE]

\* Faulty variant: only the first write stores its value.
SetDataOnce(cs, d, v) ==
    IF cs[d].value = None THEN [cs EXCEPT ![d].value = v] ELSE cs

\* *data = Some(new_value)
SetData(cs, d, v) == [cs EXCEPT ![d].value = v]

\* ------------------------------------------------------------------ Broadcast
NewBroadcast == [state |-> "Idling", next_id |-> 0, needs_retain |-> FALSE,
                 subscribers |-> <<>>]

\* A subscriber entry; ckind/target describe the closure behind `notify`:
\* a caller's callback ("user") or the relay of a composition operator.
\* `some` is the Option of the Unsubscriber a relay closure owns.
\* n and counter are the variables the relay of skip captures, option is
\* the Option<P> the relay of skip_while captures (TRUE: Some(predicate)).
\* count and last are history: how often the closure was invoked, and with
\* which value last.
Subscriber(id, ckind, target) ==
    [id |-> id, active |-> TRUE, ckind |-> ckind, target |-> target,
     some |-> TRUE, n |-> 0, counter |-> 0, option |-> FALSE, writes |-> 0,
     count |-> 0, last |-> None]

\* The closure of entry `index` is invoked with `val` (history only).
Invoked(b, index, val) ==
    [b EXCEPT !.subscribers[index].count = @ + 1,
              !.subscribers[index].last = val]

\* Ghost: a relay of skip counts the passes that invoke it among those begun
\* after it was registered, which are the writes made after the call of skip.
Counted(b, index, first_new) ==
    IF /\ b.subscribers[index].ckind = "skip"
       /\ b.subscribers[index].id < first_new
    THEN [b EXCEPT !.subscribers[index].writes = @ + 1]
    ELSE b

\* Vec::retain(Subscriber::active)
RECURSIVE RetainActive(_)
RetainActive(subs) ==
    IF subs = <<>> THEN <<>>
    ELSE IF Head(subs).active THEN <<Head(subs)>> \o RetainActive(Tail(subs))
         ELSE RetainActive(Tail(subs))

\* Broadcast::retain
Retain(b) ==
    IF b.needs_retain
    THEN [b EXCEPT !.needs_retain = FALSE,
                   !.subscribers = RetainActive(b.subscribers)]
    ELSE b

\* slice::binary_search_by_key(&id, Subscriber::id): the index found, 0 if none.
\* Computed as the bisection computes it, so the answer on a list that is
\* not sorted by id is whatever the bisection gives.
RECURSIVE Bisect(_, _, _, _)
Bisect(subs, id, lo, hi) ==
    IF lo >= hi THEN 0
    ELSE LET mid == lo + ((hi - lo) \div 2)
         IN IF subs[mid + 1].id = id THEN mid + 1
            ELSE IF subs[mid + 1].id < id THEN Bisect(subs, id, mid + 1, hi)
                 ELSE Bisect(subs, id, lo, mid)

\* Faulty variant: the index found is taken one too low.
BinarySearchOffByOne(subs, id) ==
    IF Bisect(subs, id, 0, Len(subs)) = 0 THEN 0
    ELSE Bisect(subs, id, 0, Len(subs)) - 1

BinarySearch(subs, id) == Bisect(subs, id, 0, Len(subs))

\* Faulty variant: Vec::swap_remove, the last entry takes the place of the removed one.
SwapRemove(seq, k) ==
    IF k = Len(seq) THEN SubSeq(seq, 1, k - 1)
    ELSE [SubSeq(seq, 1, Len(seq) - 1) EXCEPT ![k] = seq[Len(seq)]]

\* Vec::remove(index)
RemoveAt(seq, k) == SubSeq(seq, 1, k - 1) \o SubSeq(seq, k + 1, Len(seq))

\* Faulty variant: while the broadcast is busy the entry is only flagged for retain,
\* its active flag is left set.
BroadcastUnsubscribeStillActive(b, id) ==
    LET index == BinarySearch(b.subscribers, id)
    IN IF index = 0 THEN b
       ELSE IF b.state = "Idling"
            THEN [b EXCEPT !.subscribers = RemoveAt(@, index)]
            ELSE [b EXCEPT !.needs_retain = TRUE]

\* Faulty variant: the entry is removed at once unless a pass is running.
BroadcastUnsubscribeInDelivery(b, id) ==
    LET index == BinarySearch(b.subscribers, id)
    IN IF index = 0 THEN b
       ELSE IF b.state # "Notifying"
            THEN [b EXCEPT !.subscribers = RemoveAt(@, index)]
            ELSE [b EXCEPT !.subscribers[index].active = FALSE,
                           !.needs_retain = TRUE]

\* Faulty variant: the entry is removed at once in every state.
BroadcastUnsubscribeAtOnce(b, id) ==
    LET index == BinarySearch(b.subscribers, id)
    IN IF index = 0 THEN b
       ELSE [b EXCEPT !.subscribers = RemoveAt(@, index)]

\* Broadcast::unsubscribe
BroadcastUnsubscribe(b, id) ==
    LET index == BinarySearch(b.subscribers, id)
    IN IF index = 0 THEN b
       ELSE IF b.state = "Idling"
            THEN [b EXCEPT !.subscribers = RemoveAt(@, index)]
            ELSE [b EXCEPT !.subscribers[index].active = FALSE,
                           !.needs_retain = TRUE]

\* ------------------------------------------------------------------ RawSignal
\* `handles` are the Rc<RawSignal> clones the caller holds (Signal, SignalMut
\* and their clones); `upgraded` are the temporary Rc a relay obtains from
\* Weak::upgrade for the time of its call into the derived signal.
NewRawSignal(cell, mutable) ==
    [broadcast |-> NewBroadcast, data |-> cell, handles |-> 1, upgraded |-> 0,
     mutable |-> mutable]

StrongCount(s) == signals[s].handles + signals[s].upgraded

\* Weak::upgrade succeeds iff a strong reference is left.
\* Faulty variant: Weak::upgrade succeeds whatever the strong count.
AliveAlways(s) == s \in 1..Len(signals)

Alive(s) == s \in 1..Len(signals) /\ StrongCount(s) > 0

Cell(s) == cells[signals[s].data]

\* Faulty variant: a cell that holds no value is reported as updating.
TryGetInConflated(sigs, cs, s) ==
    LET c == cs[sigs[s].data]
    IN IF ~TryBorrowOk(c) \/ c.value = None
       THEN [res |-> "Updating", val |-> None]
       ELSE [res |-> "Ok", val |-> c.value]

\* RawSignal::try_get, on the signals `sigs` and the cells `cs`
TryGetIn(sigs, cs, s) ==
    LET c == cs[sigs[s].data]
    IN IF ~TryBorrowOk(c) THEN [res |-> "Updating", val |-> None]
       ELSE IF c.value = None THEN [res |-> "Uninit", val |-> None]
            ELSE [res |-> "Ok", val |-> c.value]

\* RawSignal::try_get
TryGet(s) == TryGetIn(signals, cells, s)

\* ---------------------------------------------------------------- call stack
Frame(kind, sig, id, val) ==
    [kind |-> kind, sig |-> sig, id |-> id, val |-> val,
     i |-> 0, seen |-> <<>>, op |-> "", ckind |-> "", how |-> "",
     target |-> 0, pc |-> "start", restore |-> FALSE, mode |-> "",
     wrote |-> FALSE, upgraded |-> FALSE, first_new |-> 0, stale |-> FALSE,
     snap |-> <<>>]

Depth == Len(stack)
Top == stack[Depth]
Pop == SubSeq(stack, 1, Depth - 1)

\* The closure whose code is running: the innermost callback frame, when only
\* mutation closures (written inside that callback) are above it; 0 if none.
RunningCb ==
    LET cbs == {k \in 1..Depth : stack[k].kind = "cb"}
    IN IF cbs = {} THEN 0
       ELSE LET k == CHOOSE x \in cbs : \A y \in cbs : y <= x
            IN IF \A j \in (k + 1)..Depth : stack[j].kind = "mutate" THEN k ELSE 0

\* The running closure as a set: {<<signal, id>>}, empty in the main line.
Running ==
    IF RunningCb = 0 THEN {}
    ELSE {<<stack[RunningCb].sig, stack[RunningCb].id>>}

\* The running code is the caller's: the program's main line, a subscriber
\* callback of the caller, or a mutation closure.
UserRunning ==
    /\ ~panicked
    /\ \/ Depth = 0
       \/ Depth > 0 /\ Top.kind = "cb" /\ Top.ckind = "user"
       \/ Depth > 0 /\ Top.kind = "mutate"

\* Behaviours are cut after a number of public operations.
Budget == IF Len(signals) > 1 THEN MaxComposedOps ELSE MaxOps

CanCall == UserRunning /\ ops < Budget

\* The record of a call. unwrap: the caller unwraps the result (set, mutate,
\* get) and the result is an error; unwrapping Ok is the identity, so on
\* success the unwrapping form and the try_ form are the same step.
Call(op, s, unwrap) == [op |-> op, sig |-> s, unwrap |-> unwrap]

\* The record of a return: the operation, its signal, its result, and what
\* happened between its call and its return: whether Broadcast::notify walked
\* the list (pass), and the ids it invoked, in order (seen).
NoRet == [op |-> "none", sig |-> 0, res |-> "", val |-> None, pass |-> FALSE,
          seen |-> <<>>, id |-> 0]

Ret(op, sig, res) == [NoRet EXCEPT !.op = op, !.sig = sig, !.res = res]

\* The one error value try_set and try_mutate return.
SignalUpdatingError == "Err"

\* --------------------------------------------------------------------- Init
\* SignalMut::new(v) or SignalMut::uninit(): one source signal, one handle.
\* The signal itself never inspects a value (it stores, clones and hands on),
\* so one initial value is drawn; the others are reached by a first write.
Init ==
    /\ \E v \in {None, 1} : cells = <<NewCell(v)>>
    /\ signals = <<NewRawSignal(1, TRUE)>>
    /\ stack = <<>>
    /\ tokens = <<>>
    /\ ret = NoRet
    /\ ops = 0
    /\ panicked = FALSE
    /\ call = Call("none", 0, FALSE)
    /\ written = <<None>>
    /\ refused = {}
    /\ cancelled = {}

\* ------------------------------------------------------- RawSignal::notify_all
\* Faulty variant: the write returns without calling Broadcast::notify.
NotifyAllForgotten(s, op, sigs, cs, base) ==
    /\ cells' = cs
    /\ stack' = base
    /\ signals' = sigs
    /\ ret' = [Ret(op, s, "Ok") EXCEPT !.val = cs[sigs[s].data].value]

\* History: per signal, the ids and invocation counts of its subscribers.
Counts(sigs) ==
    [x \in 1..Len(sigs) |->
        [k \in 1..Len(sigs[x].broadcast.subscribers) |->
            <<sigs[x].broadcast.subscribers[k].id,
              sigs[x].broadcast.subscribers[k].count>>]]

\* Faulty variant: the data is not borrowed for the time of the pass.
NotifyAllUnborrowed(s, op, sigs, cs, base) ==
    LET b == sigs[s].broadcast
        d == sigs[s].data
    IN IF b.state # "Idling"
       THEN /\ cells' = cs
            /\ stack' = base
            /\ signals' = sigs
            /\ ret' = [Ret(op, s, "Ok") EXCEPT !.val = cs[d].value]
       ELSE /\ cells' = cs
            /\ stack' = Append(base, [Frame("notify", s, 0, cs[d].value)
                                        EXCEPT !.op = op,
                                               !.first_new = b.next_id,
                                               !.snap = Counts(sigs)])
            /\ signals' = [sigs EXCEPT ![s].broadcast.state = "Notifying"]
            /\ ret' = ret

\* notify_all, entered with the cells as `cs` and the stack as `base`:
\* borrows the data and calls Broadcast::notify, which returns at once unless
\* the broadcast is idling, and otherwise starts the walk (a "notify" frame).
NotifyAll(s, op, sigs, cs, base) ==
    LET b == sigs[s].broadcast
        d == sigs[s].data
    IN IF b.state # "Idling"
       THEN /\ cells' = cs
            /\ stack' = base
            /\ signals' = sigs
            /\ ret' = [Ret(op, s, "Ok") EXCEPT !.val = cs[d].value]
       ELSE /\ cells' = [cs EXCEPT ![d].borrows = @ + 1]
            /\ stack' = Append(base, [Frame("notify", s, 0, cs[d].value)
                                        EXCEPT !.op = op,
                                               !.first_new = b.next_id,
                                               !.snap = Counts(sigs)])
            /\ signals' = [sigs EXCEPT ![s].broadcast.state = "Notifying"]
            /\ ret' = ret

\* Broadcast::notify, one turn of the while loop: subscriber i is invoked
\* if it is active (i advances when the callback returns), else skipped.
NotifyStep ==
    /\ ~panicked
    /\ Depth > 0
    /\ Top.kind = "notify"
    /\ LET subs == signals[Top.sig].broadcast.subscribers
       IN /\ Top.i < Len(subs)
          /\ LET sub == subs[Top.i + 1]
             IN IF sub.active
                THEN /\ stack' = Append(
                         [stack EXCEPT ![Depth].seen = Append(@, sub.id)],
                         [Frame("cb", Top.sig, sub.id, Cell(Top.sig).value)
                            EXCEPT !.ckind = sub.ckind, !.how = "notify",
                                   !.target = sub.target,
                                   !.stale = (\E c \in cancelled :
                                                c.sig = Top.sig /\ c.id = sub.id)])
                     /\ signals' = [signals EXCEPT ![Top.sig].broadcast =
                                       Counted(
                                         Invoked(@, Top.i + 1,
                                                 Cell(Top.sig).value),
                                         Top.i + 1, Top.first_new)]
                ELSE /\ stack' = [stack EXCEPT ![Depth].i = @ + 1]
                     /\ signals' = signals
    /\ UNCHANGED <<cells, tokens, ret, ops, panicked, call, written, refused, cancelled>>

\* Broadcast::notify after the loop (retain, back to Idling), then the end of
\* notify_all (the borrow of the data is dropped) and of try_set/try_mutate.
NotifyEnd ==
    /\ ~panicked
    /\ Depth > 0
    /\ Top.kind = "notify"
    /\ LET s == Top.sig
           b == signals[s].broadcast
       IN /\ Top.i >= Len(b.subscribers)
          /\ signals' = [signals EXCEPT
                           ![s].broadcast = [Retain(b) EXCEPT !.state = "Idling"]]
          /\ cells' = [cells EXCEPT ![signals[s].data].borrows = @ - 1]
          /\ ret' = [Ret(Top.op, s, "Ok") EXCEPT !.pass = TRUE,
                                                  !.seen = Top.seen,
                                                  !.val = Top.val,
                                                  !.id = Top.first_new]
    /\ stack' = Pop
    /\ UNCHANGED <<tokens, ops, panicked, call, written, refused, cancelled>>

\* Faulty variant: the value is stored before the borrow is tried.
TrySetStoresFirst(s, v, unwrap) ==
    /\ CanCall
    /\ Alive(s) /\ signals[s].handles > 0 /\ signals[s].mutable
    /\ ops' = ops + 1
    /\ call' = Call("try_set", s, unwrap /\ ~TryBorrowMutOk(Cell(s)))
    /\ UNCHANGED <<tokens, cancelled>>
    /\ IF ~TryBorrowMutOk(Cell(s))
       THEN /\ ret' = Ret("try_set", s, "Err")
            /\ panicked' = unwrap
            /\ refused' = refused \cup Running
            /\ cells' = SetData(cells, signals[s].data, v)
            /\ UNCHANGED <<signals, stack, written>>
       ELSE /\ NotifyAll(s, "try_set", signals,
                         SetData(cells, signals[s].data, v), stack)
            /\ written' = [written EXCEPT ![s] = v]
            /\ UNCHANGED <<panicked, refused>>

\* ---------------------------------------------------------- SignalMut::try_set
\* SignalMut::try_set / SignalMut::set (unwrap) -> RawSignal::try_set
TrySet(s, v, unwrap) ==
    /\ CanCall
    /\ Alive(s) /\ signals[s].handles > 0 /\ signals[s].mutable
    /\ ops' = ops + 1
    /\ call' = Call("try_set", s, unwrap /\ ~TryBorrowMutOk(Cell(s)))
    /\ UNCHANGED <<tokens, cancelled>>
    /\ IF ~TryBorrowMutOk(Cell(s))
       THEN /\ ret' = Ret("try_set", s, "Err")
            /\ panicked' = unwrap
            /\ refused' = refused \cup Running
            /\ UNCHANGED <<signals, cells, stack, written>>
       ELSE /\ NotifyAll(s, "try_set", signals,
                         SetData(cells, signals[s].data, v), stack)
            /\ written' = [written EXCEPT ![s] = v]
            /\ UNCHANGED <<panicked, refused>>

\* ------------------------------------------------------------ Signal::try_get
\* Signal::try_get / Signal::get (unwrap) -> RawSignal::try_get
TryGetOp(s, unwrap) ==
    /\ CanCall
    /\ Alive(s) /\ signals[s].handles > 0
    /\ ops' = ops + 1
    /\ call' = Call("try_get", s, unwrap /\ TryGet(s).res # "Ok")
    /\ ret' = [Ret("try_get", s, TryGet(s).res) EXCEPT !.val = TryGet(s).val]
    /\ panicked' = (unwrap /\ TryGet(s).res # "Ok")
    /\ UNCHANGED <<signals, cells, stack, tokens, written, refused, cancelled>>

\* ----------------------------------------------------------- Unsubscriber
\* Faulty variant: the token refers to the signal that created the data cell.
TokenOfCell(s, id, owned) ==
    [sig |-> signals[s].data, id |-> id, some |-> TRUE, owned |-> owned,
     wrapped |-> FALSE, gone |-> FALSE]

\* Unsubscriber::new.  `owned` tells the token of for_each_inner, which lives
\* inside the subscriber's closure and is reachable from that closure only.
\* `wrapped` tells a DropUnsubscriber, `gone` a value that was dropped.
Token(s, id, owned) ==
    [sig |-> s, id |-> id, some |-> TRUE, owned |-> owned,
     wrapped |-> FALSE, gone |-> FALSE]

\* Faulty variant: the new closure is invoked whether or not there is a value.
DeliversNowNoValue(state, value) == state # "Notifying"

\* Faulty variant: the new closure is invoked only if the broadcast is idling.
DeliversNowIdleOnly(state, value) == value # None /\ state = "Idling"

\* Faulty variant: the new closure is invoked only while the broadcast is notifying.
DeliversNowInverted(state, value) == value # None /\ state = "Notifying"

\* Faulty variant: the new closure is invoked even while the broadcast is notifying.
DeliversNowAlways(state, value) == value # None

\* Broadcast::push_subscriber, `if let Some(value) = value { match state`:
\* the new closure is invoked unless the broadcast is notifying.
DeliversNow(state, value) == value # None /\ state # "Notifying"

\* The composition operators of Signal.
Operators == {"map", "filter", "filter_map", "fold", "map_while", "skip",
              "skip_while",
              "take"}

\* Faulty variant: the counter is not advanced, the next entry gets the same id.
NextIdReused(b) == b

\* Broadcast::next_id: the broadcast after the id b.next_id was handed out.
NextId(b) == [b EXCEPT !.next_id = @ + 1]

\* --------------------------------------------------- RawSignal::raw_for_each
\* Faulty variant: the state is left at Subscribing when the closure has returned.
RestoresIdlingNever(state) == FALSE

\* Broadcast::push_subscriber sets the state back to Idling after the closure
\* returned iff it found the broadcast idling and set it to Subscribing.
RestoresIdling(state) == state = "Idling"

\* Faulty variant: the borrow of the data is dropped before the new closure is
\* invoked.
RawForEachReleased(s, mode, sub, sigs, cs, tks) ==
    LET b == sigs[s].broadcast
        d == sigs[s].data
        held == TryBorrowOk(cs[d])
        value == IF held THEN cs[d].value ELSE None
        b1 == [NextId(b) EXCEPT !.subscribers = Append(@, sub)]
    IN IF DeliversNow(b.state, value)
       THEN /\ signals' = [sigs EXCEPT ![s].broadcast =
                  [Invoked(b1, Len(b1.subscribers), value)
                     EXCEPT !.state = "Subscribing"]]
            /\ cells' = cs
            /\ stack' = stack \o
                 << [Frame("sub", s, sub.id, value)
                       EXCEPT !.restore = RestoresIdling(b.state), !.mode = mode,
                              !.target = sub.target],
                    [Frame("cb", s, sub.id, value)
                       EXCEPT !.ckind = sub.ckind, !.how = "subscribe",
                              !.target = sub.target] >>
            /\ tokens' = tks
            /\ ret' = ret
       ELSE /\ signals' = [sigs EXCEPT ![s].broadcast = b1]
            /\ cells' = cs
            /\ stack' = stack
            /\ tokens' = IF mode = "for_each"
                         THEN Append(tks, Token(s, sub.id, FALSE)) ELSE tks
            /\ ret' = [Ret(mode, IF mode \in Operators THEN sub.target ELSE s, "Ok")
                         EXCEPT !.id = sub.id]

\* raw_for_each + Broadcast::push_subscriber for the new entry `sub`, entered
\* with the signals as `sigs`, the cells as `cs` and the tokens as `tks`.
\* The new closure is invoked at once (frames "sub" and "cb") when the data
\* can be borrowed, holds a value, and the broadcast is not notifying.
RawForEach(s, mode, sub, sigs, cs, tks) ==
    LET b == sigs[s].broadcast
        d == sigs[s].data
        held == TryBorrowOk(cs[d])
        value == IF held THEN cs[d].value ELSE None
        b1 == [NextId(b) EXCEPT !.subscribers = Append(@, sub)]
    IN IF DeliversNow(b.state, value)
       THEN /\ signals' = [sigs EXCEPT ![s].broadcast =
                  [Invoked(b1, Len(b1.subscribers), value)
                     EXCEPT !.state = "Subscribing"]]
            /\ cells' = [cs EXCEPT ![d].borrows = @ + 1]
            /\ stack' = stack \o
                 << [Frame("sub", s, sub.id, value)
                       EXCEPT !.restore = RestoresIdling(b.state), !.mode = mode,
                              !.target = sub.target],
                    [Frame("cb", s, sub.id, value)
                       EXCEPT !.ckind = sub.ckind, !.how = "subscribe",
                              !.target = sub.target] >>
            /\ tokens' = tks
            /\ ret' = ret
       ELSE /\ signals' = [sigs EXCEPT ![s].broadcast = b1]
            /\ cells' = cs
            /\ stack' = stack
            /\ tokens' = IF mode = "for_each"
                         THEN Append(tks, Token(s, sub.id, FALSE)) ELSE tks
            /\ ret' = [Ret(mode, IF mode \in Operators THEN sub.target ELSE s, "Ok")
                         EXCEPT !.id = sub.id]

\* Signal::for_each, Signal::for_each_inner, Signal::for_each_forever
ForEach(s, mode) ==
    /\ CanCall
    /\ Alive(s) /\ signals[s].handles > 0
    /\ signals[s].broadcast.next_id < MaxSubs
    /\ mode # "for_each_forever" => Len(tokens) < MaxTokens
    /\ ops' = ops + 1
    /\ call' = Call(mode, s, FALSE)
    /\ RawForEach(s, mode,
                  Subscriber(signals[s].broadcast.next_id, "user", 0),
                  signals, cells,
                  IF mode = "for_each_inner"
                  THEN Append(tokens, Token(s, signals[s].broadcast.next_id, TRUE))
                  ELSE tokens)
    /\ UNCHANGED <<panicked, written, refused, cancelled>>

\* Drop of a RawSignal whose last strong reference went away: the broadcast
\* and with it every subscriber closure is dropped.
DropIfDead(sigs, s) ==
    IF sigs[s].handles + sigs[s].upgraded = 0
    THEN [sigs EXCEPT ![s].broadcast.subscribers = <<>>]
    ELSE sigs

\* A closure returns to the function that invoked it: Broadcast::notify
\* (i += 1) or Broadcast::push_subscriber, which then returns through
\* raw_for_each (the borrow of the data is dropped) to for_each or compose.
CbReturn ==
    /\ ~panicked
    /\ Depth > 1
    /\ Top.kind = "cb"
    /\ stack[Depth - 1].kind \in {"notify", "sub"}
    /\ Top.ckind # "user" => Top.pc = "called"
    /\ LET parent == stack[Depth - 1]
           s == parent.sig
           sigs == IF Top.upgraded
                   THEN DropIfDead([signals EXCEPT ![Top.target].upgraded = @ - 1],
                                   Top.target)
                   ELSE signals
       IN IF parent.kind = "notify"
          THEN /\ stack' = [SubSeq(stack, 1, Depth - 1) EXCEPT ![Depth - 1].i = @ + 1]
               /\ signals' = sigs
               /\ UNCHANGED <<cells, tokens, ret>>
          ELSE /\ stack' = SubSeq(stack, 1, Depth - 2)
               /\ signals' = IF parent.restore
                             THEN [sigs EXCEPT ![s].broadcast.state = "Idling"]
                             ELSE sigs
               /\ cells' = [cells EXCEPT ![signals[s].data].borrows = @ - 1]
               /\ tokens' = IF parent.mode = "for_each"
                            THEN Append(tokens, Token(s, parent.id, FALSE))
                            ELSE tokens
               /\ ret' = [Ret(parent.mode,
                              IF parent.mode \in Operators THEN parent.target
                              ELSE s,
                              "Ok")
                            EXCEPT !.id = parent.id, !.val = parent.val,
                                   !.seen = <<parent.id>>]
    /\ UNCHANGED <<ops, panicked, call, written, refused, cancelled>>

\* The running code can reach token t: any code may hold a token returned by
\* for_each or a clone; the token of for_each_inner is passed to its closure.
Reachable(t) ==
    /\ ~tokens[t].gone
    /\ \/ ~tokens[t].owned
       \/ /\ RunningCb > 0
          /\ stack[RunningCb].sig = tokens[t].sig
          /\ stack[RunningCb].id = tokens[t].id

\* The running closure is subscriber `id` of signal s.
Self(s, id) ==
    /\ RunningCb > 0
    /\ stack[RunningCb].sig = s
    /\ stack[RunningCb].id = id

\* Unsubscriber::unsubscribe -> RawSignal::unsubscribe -> Broadcast::unsubscribe
Unsubscribe(t) ==
    /\ CanCall
    /\ t \in 1..Len(tokens) /\ Reachable(t)
    /\ ops' = ops + 1
    /\ call' = Call("unsubscribe", tokens[t].sig, FALSE)
    /\ LET tk == tokens[t]
       IN IF ~tk.some
          THEN /\ ret' = [Ret("unsubscribe", tk.sig, "taken") EXCEPT !.id = tk.id]
               /\ UNCHANGED <<signals, tokens, refused, cancelled>>
          ELSE /\ tokens' = [tokens EXCEPT ![t].some = FALSE]
               /\ IF Alive(tk.sig)
                  THEN /\ signals' = [signals EXCEPT ![tk.sig].broadcast =
                                        BroadcastUnsubscribe(@, tk.id)]
                       /\ cancelled' = cancelled \cup
                            {[sig |-> tk.sig, id |-> tk.id, self |-> Self(tk.sig, tk.id)]}
                       /\ ret' = [Ret("unsubscribe", tk.sig, "called")
                                    EXCEPT !.id = tk.id]
                  ELSE /\ ret' = [Ret("unsubscribe", tk.sig, "dead")
                                    EXCEPT !.id = tk.id]
                       /\ UNCHANGED <<signals, refused, cancelled>>
    /\ UNCHANGED <<cells, stack, panicked, written, refused>>

\* Unsubscriber::clone
CloneToken(t) ==
    /\ CanCall
    /\ t \in 1..Len(tokens) /\ Reachable(t)
    /\ Len(tokens) < MaxTokens
    /\ ops' = ops + 1
    /\ call' = Call("clone_token", tokens[t].sig, FALSE)
    /\ tokens' = Append(tokens, [tokens[t] EXCEPT !.owned = FALSE])
    /\ ret' = [Ret("clone_token", tokens[t].sig, "Ok") EXCEPT !.id = tokens[t].id]
    /\ UNCHANGED <<signals, cells, stack, panicked, written, refused, cancelled>>

\* ------------------------------------------------------- DropUnsubscriber
\* Unsubscriber::droppable: the token, taken by value, becomes the wrapper.
Droppable(t) ==
    /\ CanCall
    /\ t \in 1..Len(tokens) /\ Reachable(t)
    /\ ~tokens[t].owned /\ ~tokens[t].wrapped
    /\ ops' = ops + 1
    /\ call' = Call("droppable", tokens[t].sig, FALSE)
    /\ tokens' = [tokens EXCEPT ![t].wrapped = TRUE]
    /\ ret' = [Ret("droppable", tokens[t].sig, "Ok") EXCEPT !.id = tokens[t].id]
    /\ UNCHANGED <<signals, cells, stack, panicked, written, refused, cancelled>>

\* Drop for DropUnsubscriber, run on the wrapper tk: self.unsubscribe(),
\* which takes the Option and, if it was Some and the signal can be
\* upgraded, calls Broadcast::unsubscribe.
DropGlue(sigs, tk) ==
    IF tk.some /\ Alive(tk.sig)
    THEN [sigs EXCEPT ![tk.sig].broadcast = BroadcastUnsubscribe(@, tk.id)]
    ELSE sigs

\* What drop(tk) adds to the history of cancelled subscriptions.
DropCancels(tk) ==
    IF tk.some /\ Alive(tk.sig)
    THEN {[sig |-> tk.sig, id |-> tk.id, self |-> Self(tk.sig, tk.id)]}
    ELSE {}

\* A DropUnsubscriber goes out of scope.
DropWrapper(t) ==
    /\ CanCall
    /\ t \in 1..Len(tokens) /\ Reachable(t)
    /\ tokens[t].wrapped
    /\ ops' = ops + 1
    /\ call' = Call("drop", tokens[t].sig, FALSE)
    /\ tokens' = [tokens EXCEPT ![t].some = FALSE, ![t].gone = TRUE]
    /\ signals' = DropGlue(signals, tokens[t])
    /\ cancelled' = cancelled \cup DropCancels(tokens[t])
    /\ ret' = [Ret("drop", tokens[t].sig,
                   IF ~tokens[t].some THEN "taken"
                   ELSE IF Alive(tokens[t].sig) THEN "called" ELSE "dead")
                 EXCEPT !.id = tokens[t].id]
    /\ UNCHANGED <<cells, stack, panicked, written, refused>>

\* Faulty variant: take leaves the Option in the wrapper.
TakenOutKept(tk) == tk

\* self.0 .0.take(): the wrapper as take leaves it behind.
TakenOut(tk) == [tk EXCEPT !.some = FALSE]

\* DropUnsubscriber::take: the Option moves into a plain Unsubscriber, and
\* the wrapper left behind is dropped when take returns.
TakeWrapper(t) ==
    /\ CanCall
    /\ t \in 1..Len(tokens) /\ Reachable(t)
    /\ tokens[t].wrapped
    /\ ops' = ops + 1
    /\ call' = Call("take", tokens[t].sig, FALSE)
    /\ tokens' = [tokens EXCEPT ![t].wrapped = FALSE]
    /\ signals' = DropGlue(signals, TakenOut(tokens[t]))
    /\ cancelled' = cancelled \cup DropCancels(TakenOut(tokens[t]))
    /\ ret' = [Ret("take", tokens[t].sig, "Ok") EXCEPT !.id = tokens[t].id]
    /\ UNCHANGED <<cells, stack, panicked, written, refused>>

\* ------------------------------------------------ Value for a plain value
\* Faulty variant: the closure is dropped without a call.
NotifyNever(v, mode) == <<>>

\* notify(self) / notify(self, &mut ()): the frames of for_each(_inner) on
\* the plain value v and of the closure it calls.
NotifyOnce(v, mode) ==
    << [Frame("value", 0, 0, v) EXCEPT !.mode = mode],
       [Frame("cb", 0, 0, v) EXCEPT !.ckind = "user", !.how = "value"] >>

\* <T as Value>::for_each and for_each_inner on the plain value v.
ValueForEach(v, mode) ==
    /\ CanCall
    /\ ops' = ops + 1
    /\ call' = Call(mode, 0, FALSE)
    /\ stack' = stack \o NotifyOnce(v, mode)
    /\ UNCHANGED <<signals, cells, tokens, ret, panicked, written, refused,
                   cancelled>>

\* The closure returns, and for_each with it: () is handed back.
ValueReturn ==
    /\ ~panicked
    /\ Depth > 1
    /\ Top.kind = "cb" /\ stack[Depth - 1].kind = "value"
    /\ stack' = SubSeq(stack, 1, Depth - 2)
    /\ ret' = [Ret(stack[Depth - 1].mode, 0, "Ok")
                 EXCEPT !.val = Top.val, !.seen = <<0>>]
    /\ UNCHANGED <<signals, cells, tokens, ops, panicked, call, written,
                   refused, cancelled>>

\* <() as Unsubscribe>::unsubscribe: the default body, empty.
UnitUnsubscribe ==
    /\ CanCall
    /\ ops' = ops + 1
    /\ call' = Call("unsubscribe", 0, FALSE)
    /\ ret' = Ret("unsubscribe", 0, "unit")
    /\ UNCHANGED <<signals, cells, stack, tokens, panicked, written, refused,
                   cancelled>>

\* Signal::clone, SignalMut::clone
CloneHandle(s) ==
    /\ CanCall
    /\ Alive(s) /\ signals[s].handles > 0
    /\ signals[s].handles < MaxStrong
    /\ ops' = ops + 1
    /\ call' = Call("clone", s, FALSE)
    /\ signals' = [signals EXCEPT ![s].handles = @ + 1]
    /\ ret' = Ret("clone", s, "Ok")
    /\ UNCHANGED <<cells, stack, tokens, panicked, written, refused, cancelled>>

\* The handles of s that running calls borrow (&self) and so cannot be
\* dropped: one per call of the caller on s that is on the stack, and the
\* new signal of a compose that has not returned yet.
Pinned(s) ==
    Cardinality({k \in 1..Depth :
        \/ stack[k].sig = s /\ stack[k].kind \in {"mutate", "sub"}
        \/ stack[k].sig = s /\ stack[k].kind = "notify"
                            /\ stack[k].op \in {"try_set", "try_mutate"}
        \/ stack[k].kind = "sub" /\ stack[k].target = s})

\* drop of a Signal / SignalMut handle
DropHandle(s) ==
    /\ CanCall
    /\ s \in 1..Len(signals)
    /\ signals[s].handles > Pinned(s)
    /\ ops' = ops + 1
    /\ call' = Call("drop", s, FALSE)
    /\ signals' = DropIfDead([signals EXCEPT ![s].handles = @ - 1], s)
    /\ ret' = Ret("drop", s, "Ok")
    /\ UNCHANGED <<cells, stack, tokens, panicked, written, refused, cancelled>>

\* Faulty variant: the mutation closure runs without the mutable borrow of the data.
TryMutateUnborrowed(s, unwrap) ==
    /\ CanCall
    /\ Alive(s) /\ signals[s].handles > 0 /\ signals[s].mutable
    /\ ops' = ops + 1
    /\ call' = Call("try_mutate", s,
                     unwrap /\ (~TryBorrowMutOk(Cell(s)) \/ Cell(s).value = None))
    /\ UNCHANGED <<signals, tokens, written, cancelled>>
    /\ IF ~TryBorrowMutOk(Cell(s)) \/ Cell(s).value = None
       THEN /\ ret' = Ret("try_mutate", s, "Err")
            /\ panicked' = unwrap
            /\ refused' = refused \cup Running
            /\ UNCHANGED <<cells, stack>>
       ELSE /\ cells' = cells
            /\ stack' = Append(stack, [Frame("mutate", s, 0, Cell(s).value)
                                         EXCEPT !.op = "try_mutate",
                                                !.first_new =
                                                  signals[s].broadcast.next_id])
            /\ UNCHANGED <<ret, panicked, refused>>

\* ------------------------------------------------------- SignalMut::try_mutate
\* SignalMut::try_mutate / SignalMut::mutate (unwrap) -> RawSignal::try_mutate,
\* up to the call of the mutation closure (a "mutate" frame).
TryMutate(s, unwrap) ==
    /\ CanCall
    /\ Alive(s) /\ signals[s].handles > 0 /\ signals[s].mutable
    /\ ops' = ops + 1
    /\ call' = Call("try_mutate", s,
                     unwrap /\ (~TryBorrowMutOk(Cell(s)) \/ Cell(s).value = None))
    /\ UNCHANGED <<signals, tokens, written, cancelled>>
    /\ IF ~TryBorrowMutOk(Cell(s)) \/ Cell(s).value = None
       THEN /\ ret' = Ret("try_mutate", s, "Err")
            /\ panicked' = unwrap
            /\ refused' = refused \cup Running
            /\ UNCHANGED <<cells, stack>>
       ELSE /\ cells' = [cells EXCEPT ![signals[s].data].mut = TRUE]
            /\ stack' = Append(stack, [Frame("mutate", s, 0, Cell(s).value)
                                         EXCEPT !.op = "try_mutate",
                                                !.first_new =
                                                  signals[s].broadcast.next_id])
            /\ UNCHANGED <<ret, panicked, refused>>

\* The mutation closure writes through its &mut T.
MutateWrite(v) ==
    /\ ~panicked
    /\ Depth > 0
    /\ Top.kind = "mutate"
    /\ ~Top.wrote
    /\ cells' = [cells EXCEPT ![signals[Top.sig].data].value = v]
    /\ stack' = [stack EXCEPT ![Depth].wrote = TRUE]
    /\ UNCHANGED <<signals, tokens, ret, ops, panicked, call, written, refused, cancelled>>

\* Faulty variant: the mutable borrow of the data is kept over notify_all.
MutateReturnBorrowed ==
    /\ ~panicked
    /\ Depth > 0
    /\ Top.kind = "mutate"
    /\ NotifyAll(Top.sig, "try_mutate", signals, cells, Pop)
    /\ written' = [written EXCEPT ![Top.sig] = Cell(Top.sig).value]
    /\ UNCHANGED <<tokens, ops, panicked, call, refused, cancelled>>

\* The mutation closure returns: RawSignal::try_mutate drops the mutable
\* borrow and calls notify_all.
MutateReturn ==
    /\ ~panicked
    /\ Depth > 0
    /\ Top.kind = "mutate"
    /\ NotifyAll(Top.sig, "try_mutate", signals,
                 [cells EXCEPT ![signals[Top.sig].data].mut = FALSE], Pop)
    /\ written' = [written EXCEPT ![Top.sig] = Cell(Top.sig).value]
    /\ UNCHANGED <<tokens, ops, panicked, call, refused, cancelled>>

\* ------------------------------------------------------------- Signal::map
\* The function given to map (Scenario A of the specification: x * 10).
MapFn(v) == v * 10

\* Signal::map -> Signal::compose: a new uninitialised RawSignal, and a relay
\* subscribed to the source with for_each_inner.
Map(s) ==
    /\ CanCall
    /\ Alive(s) /\ signals[s].handles > 0
    /\ Len(signals) < MaxSignals
    /\ signals[s].broadcast.next_id < MaxSubs
    /\ ops' = ops + 1
    /\ call' = Call("map", s, FALSE)
    /\ RawForEach(s, "map",
                  Subscriber(signals[s].broadcast.next_id, "map", Len(signals) + 1),
                  Append(signals, NewRawSignal(Len(cells) + 1, FALSE)),
                  Append(cells, NewCell(None)),
                  tokens)
    /\ written' = Append(written, None)
    /\ UNCHANGED <<panicked, refused, cancelled>>

\* Position of the entry with this id in a subscriber list, 0 if absent.
IndexOf(subs, id) ==
    IF \E k \in 1..Len(subs) : subs[k].id = id
    THEN CHOOSE k \in 1..Len(subs) : subs[k].id = id
    ELSE 0

\* ------------------------------------------- the other operators of Signal
\* The functions given to the operators: the predicates hold for every value
\* but 1, filter_map and map_while give None for 1 and x * 10 otherwise, and
\* fold adds the value to an accumulator that starts at FoldInit.
FilterPredicate(v) == v # 1

FilterMapFn(v) == IF v = 1 THEN None ELSE v * 10

FoldInit == 100

FoldFn(acc, v) == acc + v

MapWhileFn(v) == IF v = 2 THEN None ELSE v * 10

SkipWhilePredicate(v) == v # 1

\* Faulty variant: the derived signal gets a cell of its own, a copy of the source's.
SharedCopy(sigs, cs, s) ==
    [raw |-> NewRawSignal(Len(cs) + 1, FALSE),
     cells |-> Append(cs, NewCell(cs[sigs[s].data].value))]

\* RawSignal::shared: a new broadcast on the data cell of s.
Shared(sigs, cs, s) ==
    [raw |-> NewRawSignal(sigs[s].data, FALSE), cells |-> cs]

\* Signal::compose, called by an operator with the RawSignal `raw` it built
\* (the cells are `cs` then): the relay `sub` is subscribed to the source
\* with for_each_inner.
Compose(s, op, raw, cs, sub) ==
    /\ CanCall
    /\ Alive(s) /\ signals[s].handles > 0
    /\ Len(signals) < MaxSignals
    /\ signals[s].broadcast.next_id < MaxSubs
    /\ ops' = ops + 1
    /\ call' = Call(op, s, FALSE)
    /\ RawForEach(s, op, sub, Append(signals, raw), cs, tokens)
    /\ written' = Append(written, None)
    /\ UNCHANGED <<panicked, refused, cancelled>>

\* The relay a new operator subscribes to s.
Relay(s, op) == Subscriber(signals[s].broadcast.next_id, op, Len(signals) + 1)

\* Signal::filter
Filter(s) ==
    Compose(s, "filter", Shared(signals, cells, s).raw,
            Shared(signals, cells, s).cells, Relay(s, "filter"))

\* Signal::filter_map
FilterMap(s) ==
    Compose(s, "filter_map", NewRawSignal(Len(cells) + 1, FALSE),
            Append(cells, NewCell(None)), Relay(s, "filter_map"))

\* Signal::fold
Fold(s) ==
    Compose(s, "fold", NewRawSignal(Len(cells) + 1, FALSE),
            Append(cells, NewCell(FoldInit)), Relay(s, "fold"))

\* Signal::map_while
MapWhile(s) ==
    Compose(s, "map_while", NewRawSignal(Len(cells) + 1, FALSE),
            Append(cells, NewCell(None)), Relay(s, "map_while"))

\* Signal::skip
Skip(s, n) ==
    Compose(s, "skip", Shared(signals, cells, s).raw,
            Shared(signals, cells, s).cells,
            [Relay(s, "skip") EXCEPT !.n = n])

\* Signal::skip_while
SkipWhile(s) ==
    Compose(s, "skip_while", Shared(signals, cells, s).raw,
            Shared(signals, cells, s).cells,
            [Relay(s, "skip_while") EXCEPT !.option = TRUE])

\* take(n), as the specification describes it (the source has no take): built
\* with compose like skip, on the cell of the source; the relay forwards the
\* first n values it gets and unsubscribes itself on the next.
TakeFirst(s, n) ==
    Compose(s, "take", Shared(signals, cells, s).raw,
            Shared(signals, cells, s).cells,
            [Relay(s, "take") EXCEPT !.n = n])

\* Faulty variant: the relay notifies without storing the value.
RelayTrySetUnstored(d, u, sigs, base) ==
    IF ~TryBorrowMutOk(Cell(d))
    THEN /\ panicked' = TRUE
         /\ ret' = Ret("try_set", d, "Err")
         /\ UNCHANGED <<signals, cells, stack, written, cancelled>>
    ELSE /\ NotifyAll(d, "relay", sigs, cells, base)
         /\ UNCHANGED <<panicked, written, cancelled>>

\* Faulty variant: the relay stores the value and notifies nobody.
RelayTrySetSilent(d, u, sigs, base) ==
    /\ signals' = signals
    /\ cells' = SetData(cells, signals[d].data, u)
    /\ stack' = [stack EXCEPT ![Depth].pc = "called"]
    /\ written' = [written EXCEPT ![d] = u]
    /\ UNCHANGED <<ret, panicked, cancelled>>

\* ------------------------------------------------------- the relay closures
\* raw.try_set(u).unwrap() in a relay, entered with the signals as `sigs`.
RelayTrySet(d, u, sigs, base) ==
    IF ~TryBorrowMutOk(Cell(d))
    THEN /\ panicked' = TRUE
         /\ ret' = Ret("try_set", d, "Err")
         /\ UNCHANGED <<signals, cells, stack, written, cancelled>>
    ELSE /\ NotifyAll(d, "relay", sigs, SetData(cells, signals[d].data, u), base)
         /\ written' = [written EXCEPT ![d] = u]
         /\ UNCHANGED <<panicked, cancelled>>

\* Faulty variant: the closure is applied to the initial value, not to the
\* accumulator.
RelayTryMutateFromInit(d, v, sigs, base) ==
    IF ~TryBorrowMutOk(Cell(d)) \/ Cell(d).value = None
    THEN /\ panicked' = TRUE
         /\ ret' = Ret("try_mutate", d, "Err")
         /\ UNCHANGED <<signals, cells, stack, written, cancelled>>
    ELSE /\ NotifyAll(d, "relay", sigs,
                      SetData(cells, signals[d].data, FoldFn(FoldInit, v)),
                      base)
         /\ written' = [written EXCEPT ![d] = FoldFn(FoldInit, v)]
         /\ UNCHANGED <<panicked, cancelled>>

\* raw.try_mutate(|acc| fold(acc, value)).unwrap() in the relay of fold.
RelayTryMutate(d, v, sigs, base) ==
    IF ~TryBorrowMutOk(Cell(d)) \/ Cell(d).value = None
    THEN /\ panicked' = TRUE
         /\ ret' = Ret("try_mutate", d, "Err")
         /\ UNCHANGED <<signals, cells, stack, written, cancelled>>
    ELSE /\ NotifyAll(d, "relay", sigs,
                      SetData(cells, signals[d].data, FoldFn(Cell(d).value, v)),
                      base)
         /\ written' = [written EXCEPT ![d] = FoldFn(Cell(d).value, v)]
         /\ UNCHANGED <<panicked, cancelled>>

\* Faulty variant: the relay returns without notifying.
RelayNotifyAllSkipped(d, sigs, base) ==
    /\ signals' = signals
    /\ stack' = [stack EXCEPT ![Depth].pc = "called"]
    /\ UNCHANGED <<cells, ret, panicked, written, cancelled>>

\* raw.notify_all() in a relay: borrow() and unwrap() panic on a cell that is
\* mutably borrowed or holds no value.
RelayNotifyAll(d, sigs, base) ==
    IF ~TryBorrowOk(Cell(d)) \/ Cell(d).value = None
    THEN /\ panicked' = TRUE
         /\ ret' = Ret("notify_all", d, "Err")
         /\ UNCHANGED <<signals, cells, stack, written, cancelled>>
    ELSE /\ NotifyAll(d, "relay", sigs, cells, base)
         /\ UNCHANGED <<panicked, written, cancelled>>

\* The relay does nothing to the derived signal.
RelayReturn(sigs, base) ==
    /\ signals' = sigs
    /\ stack' = base
    /\ UNCHANGED <<cells, ret, panicked, written, cancelled>>

\* Faulty variant: the relay returns without unsubscribing.
RelayUnsubscribeForgotten(s, k, base) ==
    /\ stack' = base
    /\ UNCHANGED <<signals, cancelled, cells, ret, panicked, written>>

\* Faulty variant: the relay empties its token and leaves the entry alone.
RelayUnsubscribeTokenOnly(s, k, base) ==
    /\ signals' = IF k > 0
                  THEN [signals EXCEPT
                          ![s].broadcast.subscribers[k].some = FALSE]
                  ELSE signals
    /\ stack' = base
    /\ UNCHANGED <<cancelled, cells, ret, panicked, written>>

\* unsub.unsubscribe() in a relay, on the token its closure owns; k is the
\* position of the relay in the subscriber list of s.
RelayUnsubscribe(s, k, base) ==
    LET b == signals[s].broadcast
    IN /\ IF k > 0 /\ b.subscribers[k].some
          THEN /\ signals' = [signals EXCEPT ![s].broadcast =
                     BroadcastUnsubscribe(
                         [b EXCEPT !.subscribers[k].some = FALSE], Top.id)]
               /\ cancelled' = cancelled \cup
                    {[sig |-> s, id |-> Top.id, self |-> TRUE]}
          ELSE UNCHANGED <<signals, cancelled>>
       /\ stack' = base
       /\ UNCHANGED <<cells, ret, panicked, written>>

\* Faulty variant: the predicate is kept.
TakeNothing(sigs, s, k) == sigs

\* option.take() in the relay of skip_while; k is the position of the relay
\* in the subscriber list of s.
Take(sigs, s, k) ==
    [sigs EXCEPT ![s].broadcast.subscribers[k].option = FALSE]

\* The closure compose subscribes to the source, with the operator's closure
\* inside: upgrade the weak reference to the derived signal and run the
\* operator's closure on it, or unsub.unsubscribe() if it is gone.
RelayStep ==
    /\ ~panicked
    /\ Depth > 0
    /\ Top.kind = "cb" /\ Top.ckind \in Operators /\ Top.pc = "start"
    /\ LET s == Top.sig
           d == Top.target
           v == Top.val
           k == IndexOf(signals[s].broadcast.subscribers, Top.id)
           me == signals[s].broadcast.subscribers[k]
           base == [stack EXCEPT ![Depth].pc = "called"]
           held == [base EXCEPT ![Depth].upgraded = TRUE]
           up == [signals EXCEPT ![d].upgraded = @ + 1]
       IN IF ~Alive(d) THEN RelayUnsubscribe(s, k, base)
          ELSE CASE Top.ckind = "map" -> RelayTrySet(d, MapFn(v), up, held)
                 [] Top.ckind = "filter" ->
                      IF FilterPredicate(v) THEN RelayNotifyAll(d, up, held)
                      ELSE RelayReturn(signals, base)
                 [] Top.ckind = "filter_map" ->
                      IF FilterMapFn(v) # None
                      THEN RelayTrySet(d, FilterMapFn(v), up, held)
                      ELSE RelayReturn(signals, base)
                 [] Top.ckind = "fold" -> RelayTryMutate(d, v, up, held)
                 [] Top.ckind = "map_while" ->
                      IF MapWhileFn(v) # None
                      THEN RelayTrySet(d, MapWhileFn(v), up, held)
                      ELSE RelayUnsubscribe(s, k, base)
                 [] Top.ckind = "skip" ->
                      IF me.counter < me.n
                      THEN RelayReturn(
                             [signals EXCEPT
                                ![s].broadcast.subscribers[k].counter = @ + 1],
                             base)
                      ELSE RelayNotifyAll(d, up, held)
                 [] Top.ckind = "take" ->
                      IF me.counter < me.n
                      THEN RelayNotifyAll(
                             d,
                             [up EXCEPT
                                ![s].broadcast.subscribers[k].counter = @ + 1],
                             held)
                      ELSE RelayUnsubscribe(s, k, base)
                 [] Top.ckind = "skip_while" ->
                      IF me.option /\ SkipWhilePredicate(v)
                      THEN RelayReturn(signals, base)
                      ELSE RelayNotifyAll(d, Take(up, s, k), held)
    /\ UNCHANGED <<tokens, ops, call, refused>>

\* --------------------------------------------------------------------- Next
Next ==
    \/ \E s \in 1..Len(signals), v \in Values, unwrap \in BOOLEAN :
          TrySet(s, v, unwrap)
    \/ \E s \in 1..Len(signals), unwrap \in BOOLEAN : TryMutate(s, unwrap)
    \/ \E v \in Values : MutateWrite(v)
    \/ MutateReturn
    \/ \E s \in 1..Len(signals), unwrap \in BOOLEAN : TryGetOp(s, unwrap)
    \/ \E s \in 1..Len(signals),
          mode \in {"for_each", "for_each_inner", "for_each_forever"} :
          ForEach(s, mode)
    \/ \E t \in 1..Len(tokens) : Unsubscribe(t)
    \/ \E t \in 1..Len(tokens) : CloneToken(t)
    \/ \E s \in 1..Len(signals) : CloneHandle(s)
    \/ \E s \in 1..Len(signals) : DropHandle(s)
    \/ NotifyStep
    \/ NotifyEnd
    \/ CbReturn

\* The source signal, its subscribers and its tokens.
Spec == Init /\ [][Next]_vars

\* The same with signals derived by map.
NextMap ==
    \/ Next
    \/ \E s \in 1..Len(signals) : Map(s)
    \/ RelayStep

SpecMap == Init /\ [][NextMap]_vars

\* The same with a signal derived by each of the other operators.
NextFilter ==
    \/ Next
    \/ \E s \in 1..Len(signals) : Filter(s)
    \/ RelayStep

SpecFilter == Init /\ [][NextFilter]_vars

NextFilterMap ==
    \/ Next
    \/ \E s \in 1..Len(signals) : FilterMap(s)
    \/ RelayStep

SpecFilterMap == Init /\ [][NextFilterMap]_vars

NextFold ==
    \/ Next
    \/ \E s \in 1..Len(signals) : Fold(s)
    \/ RelayStep

SpecFold == Init /\ [][NextFold]_vars

NextMapWhile ==
    \/ Next
    \/ \E s \in 1..Len(signals) : MapWhile(s)
    \/ RelayStep

SpecMapWhile == Init /\ [][NextMapWhile]_vars

NextSkip ==
    \/ Next
    \/ \E s \in 1..Len(signals), n \in 0..MaxSkip : Skip(s, n)
    \/ RelayStep

SpecSkip == Init /\ [][NextSkip]_vars

NextSkipWhile ==
    \/ Next
    \/ \E s \in 1..Len(signals) : SkipWhile(s)
    \/ RelayStep

SpecSkipWhile == Init /\ [][NextSkipWhile]_vars

NextTake ==
    \/ \E s \in 1..Len(signals), v \in Values : TrySet(s, v, FALSE)
    \/ \E s \in 1..Len(signals) : TryMutate(s, FALSE)
    \/ \E v \in Values : MutateWrite(v)
    \/ MutateReturn
    \/ \E s \in 1..Len(signals), mode \in {"for_each", "for_each_forever"} :
          ForEach(s, mode)
    \/ \E t \in 1..Len(tokens) : Unsubscribe(t)
    \/ \E s \in 1..Len(signals) : DropHandle(s)
    \/ NotifyStep
    \/ NotifyEnd
    \/ CbReturn
    \/ \E s \in 1..Len(signals), n \in 0..MaxTake : TakeFirst(s, n)
    \/ RelayStep

SpecTake == Init /\ [][NextTake]_vars

\* let s = SignalMut::uninit(); let d1 = s.map(f); let d2 = d1.map(f);
\* the state these three calls leave, from which operations are counted.
InitCascade ==
    /\ cells = <<NewCell(None), NewCell(None), NewCell(None)>>
    /\ signals =
         << [NewRawSignal(1, TRUE) EXCEPT !.broadcast =
               [NewBroadcast EXCEPT !.next_id = 1,
                                    !.subscribers = <<Subscriber(0, "map", 2)>>]],
            [NewRawSignal(2, FALSE) EXCEPT !.broadcast =
               [NewBroadcast EXCEPT !.next_id = 1,
                                    !.subscribers = <<Subscriber(0, "map", 3)>>]],
            NewRawSignal(3, FALSE) >>
    /\ stack = <<>>
    /\ tokens = <<>>
    /\ ret = [Ret("map", 3, "Ok") EXCEPT !.id = 0]
    /\ ops = 0
    /\ panicked = FALSE
    /\ call = Call("map", 2, FALSE)
    /\ written = <<None, None, None>>
    /\ refused = {}
    /\ cancelled = {}

\* The source signal with the scope-bound form of its tokens.
NextDrop ==
    \/ Next
    \/ \E t \in 1..Len(tokens) : Droppable(t)
    \/ \E t \in 1..Len(tokens) : DropWrapper(t)
    \/ \E t \in 1..Len(tokens) : TakeWrapper(t)

SpecDrop == Init /\ [][NextDrop]_vars

\* Plain values used through Value, next to a signal that is written and
\* subscribed to.
NextValue ==
    \/ \E s \in 1..Len(signals), v \in Values : TrySet(s, v, FALSE)
    \/ \E s \in 1..Len(signals) : ForEach(s, "for_each_forever")
    \/ NotifyStep
    \/ NotifyEnd
    \/ CbReturn
    \/ \E v \in Values, mode \in {"for_each", "for_each_inner"} :
          ValueForEach(v, mode)
    \/ ValueReturn
    \/ UnitUnsubscribe

SpecValue == Init /\ [][NextValue]_vars

NextCascade ==
    \/ Next
    \/ RelayStep

SpecCascade == InitCascade /\ [][NextCascade]_vars

\* ------------------------------------------------------------------ steps
Writes == {"try_set", "try_mutate"}

\* The step issues the public operation `op`.
Issued(op) == ops' = ops + 1 /\ call'.op = op

\* A notification pass of signal s is on the call stack.
InPass(s) == \E k \in 1..Depth : stack[k].kind = "notify" /\ stack[k].sig = s

\* The step is the end of a notification pass (Top is its frame).
PassEnds == Depth > 0 /\ Top.kind = "notify" /\ Len(stack') = Depth - 1

\* The step is an invocation of a subscriber by a notification pass.
PassInvokes == Depth > 0 /\ Top.kind = "notify" /\ Len(stack') = Depth + 1

Occurrences(seq, x) == Cardinality({k \in 1..Len(seq) : seq[k] = x})

Ids(subs) == {subs[k].id : k \in 1..Len(subs)}

\* ------------------------------------------------------------------ C1
\* C1: a try_set/try_mutate that returns an error returns at once, having
\* changed neither the subscriber list nor the stack (no callback was
\* invoked), and every try_set/try_mutate that returns Ok returns from a
\* walk of Broadcast::notify over the signal's subscribers.
C1_NotifyIffWriteSucceeded ==
    [][ /\ (\E op \in Writes : Issued(op)) /\ Len(stack') = Depth
            => /\ ret'.op = call'.op /\ ret'.res = "Err"
               /\ UNCHANGED <<signals, cells, stack>>
        /\ ret'.op \in Writes /\ ret'.res = "Err"
            => ~ret'.pass /\ ret'.seen = <<>>
        /\ ret'.op \in Writes /\ ret'.res = "Ok" => ret'.pass
      ]_vars

\* A write was refused inside a callback of a running pass of the same signal.
C1_Witness ==
    /\ ret.op \in Writes /\ ret.res = "Err"
    /\ Depth > 0 /\ Top.kind = "cb" /\ Top.how = "notify"
    /\ InPass(ret.sig)

\* ------------------------------------------------------------------ C2
\* C2: a try_set/try_mutate issued on a signal while a notification pass of
\* that signal is running returns the error without changing anything and
\* panics only in its unwrapping form (set/mutate); the pass goes on: every
\* later invocation is handed the value of the outer write, and at the end of
\* the pass every remaining subscriber has been invoked with it.
C2_ReentrantWriteRejected ==
    [][ /\ \A s \in 1..Len(signals) :
              (\E op \in Writes : Issued(op)) /\ call'.sig = s /\ InPass(s)
              => /\ ret'.op = call'.op /\ ret'.res = "Err"
                 /\ panicked' = call'.unwrap
                 /\ UNCHANGED <<signals, cells, stack>>
        /\ PassInvokes => stack'[Depth + 1].val = Top.val
        /\ PassEnds =>
              LET subs == signals'[Top.sig].broadcast.subscribers
              IN \A k \in 1..Len(subs) :
                    /\ Occurrences(Top.seen, subs[k].id) = 1
                    /\ subs[k].last = Top.val
      ]_vars

\* A pass ended in which a callback had a write refused and a subscriber
\* after that one was invoked with the value of the pass.
C2_Witness ==
    /\ ret.pass /\ ret.op \in Writes
    /\ call.op \in Writes
    /\ \E j, k \in 1..Len(ret.seen) :
          /\ j < k
          /\ <<ret.sig, ret.seen[j]>> \in refused
          /\ LET subs == signals[ret.sig].broadcast.subscribers
                 n == IndexOf(subs, ret.seen[k])
             IN n > 0 /\ subs[n].last = ret.val /\ subs[n].count = 2

\* ------------------------------------------------------------------ C3
\* C3: at the end of a notification pass, every remaining subscriber that was
\* registered during the pass has been invoked exactly once in it, with the
\* value of the pass, and not at registration in addition (one invocation in
\* all); every remaining subscriber registered before the pass has been
\* invoked exactly once in the pass.
C3_SubscribeDuringPass ==
    [][ PassEnds =>
          LET subs == signals'[Top.sig].broadcast.subscribers
          IN \A k \in 1..Len(subs) :
                /\ Occurrences(Top.seen, subs[k].id) = 1
                /\ subs[k].id >= Top.first_new
                      => subs[k].count = 1 /\ subs[k].last = Top.val
      ]_vars

\* A pass ended that invoked a subscriber registered during it.
C3_Witness ==
    /\ ret.pass /\ ret.op \in Writes
    /\ \E k \in 1..Len(ret.seen) : ret.seen[k] >= ret.id
    /\ \E k \in 1..Len(signals[ret.sig].broadcast.subscribers) :
          LET e == signals[ret.sig].broadcast.subscribers[k]
          IN e.id >= ret.id /\ e.count = 1 /\ e.ckind = "user"

\* ------------------------------------------------------------------ C4
\* The step is a call of Unsubscriber::unsubscribe, from inside the closure
\* of the subscription the token is for, that reaches Broadcast::unsubscribe.
SelfUnsubscribes ==
    /\ Issued("unsubscribe") /\ ret'.res = "called"
    /\ Self(ret'.sig, ret'.id)

\* C4: a call of unsubscribe from inside the subscriber's own callback leaves
\* the stack and the panic flag alone and keeps every entry of the list in
\* place (the running closure is not dropped); no callback is ever invoked
\* for a subscription that was cancelled before; and at the end of every
\* pass each remaining subscriber has been invoked exactly once in it.
C4_SelfUnsubscribeSafe ==
    [][ /\ SelfUnsubscribes
            => /\ UNCHANGED <<stack, panicked, cells>>
               /\ Ids(signals'[ret'.sig].broadcast.subscribers)
                    = Ids(signals[ret'.sig].broadcast.subscribers)
               /\ \A k \in 1..Len(signals[ret'.sig].broadcast.subscribers) :
                     LET e == signals[ret'.sig].broadcast.subscribers[k]
                         f == signals'[ret'.sig].broadcast.subscribers[k]
                     IN f.active = (e.active /\ e.id # ret'.id)
        /\ \A k \in 1..Len(stack') : stack'[k].kind = "cb" => ~stack'[k].stale
        /\ PassEnds =>
              LET subs == signals'[Top.sig].broadcast.subscribers
              IN /\ \A k \in 1..Len(subs) :
                       subs[k].active /\ Occurrences(Top.seen, subs[k].id) = 1
                 /\ \A c \in cancelled :
                       c.sig = Top.sig => c.id \notin Ids(subs)
      ]_vars

\* A pass ended that invoked another subscriber and not the one that had
\* cancelled itself from inside its own callback.
C4_Witness ==
    /\ ret.pass /\ ret.op \in Writes /\ ret.seen # <<>>
    /\ \E c \in cancelled :
          /\ c.self /\ c.sig = ret.sig
          /\ c.id \notin {ret.seen[k] : k \in 1..Len(ret.seen)}

\* ------------------------------------------------------------------ C5
\* No call on the data cell of signal s is on the stack.
CellFree(s) ==
    \A k \in 1..Depth : signals[stack[k].sig].data # signals[s].data

Subscriptions == {"for_each", "for_each_inner", "for_each_forever"}

\* The step returns from for_each after an immediate delivery.
ForEachReturns ==
    /\ Depth > 1 /\ Top.kind = "cb" /\ stack[Depth - 1].kind = "sub"
    /\ Len(stack') = Depth - 2

\* C5: for_each on a signal that holds a value, called while no call on its
\* cell is running, invokes the new callback in the same step with the
\* current value; when for_each returns the callback has been invoked once,
\* with the value the signal still holds.
C5_ImmediateDelivery ==
    [][ /\ \A s \in 1..Len(signals) :
              /\ \E m \in Subscriptions : Issued(m)
              /\ call'.sig = s /\ CellFree(s) /\ Cell(s).value # None
              => /\ Len(stack') = Depth + 2
                 /\ stack'[Depth + 2].kind = "cb"
                 /\ stack'[Depth + 2].id = signals[s].broadcast.next_id
                 /\ stack'[Depth + 2].val = Cell(s).value
        /\ ForEachReturns /\ stack[Depth - 1].mode \in Subscriptions
              => LET s == Top.sig
                     subs == signals'[s].broadcast.subscribers
                     n == IndexOf(subs, Top.id)
                 IN /\ n > 0
                    /\ subs[n].count = 1
                    /\ subs[n].last = cells'[signals'[s].data].value
                    /\ ret'.op \in Subscriptions /\ ret'.id = Top.id
      ]_vars

\* for_each called from the main line has returned after delivering the
\* current value to its callback.
C5_Witness ==
    /\ Depth = 0
    /\ ret.op = "for_each" /\ ret.seen = <<ret.id>> /\ ret.val # None
    /\ call.op = "for_each"

\* ------------------------------------------------------------------ C6
\* The mutation closure of a try_mutate on the cell of s is on the stack.
InMutate(s) ==
    \E k \in 1..Depth :
        stack[k].kind = "mutate" /\ signals[stack[k].sig].data = signals[s].data

\* C6: for every signal that has been written successfully, try_get returns
\* Ok with the value of the last successful write, in the main line and in
\* every callback, from the moment the write has stored its value until the
\* mutation closure of a next write is entered.
C6_GetAfterSet ==
    \A s \in 1..Len(signals) :
        Alive(s) /\ written[s] # None /\ ~InMutate(s)
        => TryGet(s) = [res |-> "Ok", val |-> written[s]]

\* get was called through a second handle after set(v) and returned v.
C6_Witness ==
    /\ Depth = 0
    /\ written[1] # None /\ signals[1].handles = 2
    /\ call.op = "try_get" /\ ret.op = "try_get"
    /\ ret.res = "Ok" /\ ret.val = written[1]
    /\ ~panicked

\* ------------------------------------------------------------------ C7
\* The step returns from map: at once, or after the immediate delivery to
\* the relay.  MapSource and MapDerived are the two signals of that call.
MapReturns ==
    \/ Issued("map") /\ Len(stack') = Depth
    \/ ForEachReturns /\ stack[Depth - 1].mode = "map"

MapSource == IF Issued("map") THEN call'.sig ELSE Top.sig

MapDerived == ret'.sig

\* The derived signals that a map relay of source s, still subscribed, feeds.
MapsOf(s) ==
    {signals[s].broadcast.subscribers[k].target :
        k \in {j \in 1..Len(signals[s].broadcast.subscribers) :
                  signals[s].broadcast.subscribers[j].ckind = "map"}}

\* C7 as stated: when map returns and the source can be read, the derived
\* signal reads as the mapped value; when a set on the source returns, every
\* derived signal reads as the mapped value; and a callback registered on the
\* derived signal right after map is invoked at once with the mapped value.
C7_MapLawStated ==
    [][ /\ MapReturns /\ TryGetIn(signals', cells', MapSource).res = "Ok"
            => TryGetIn(signals', cells', MapDerived) =
                  [res |-> "Ok",
                   val |-> MapFn(TryGetIn(signals', cells', MapSource).val)]
        /\ PassEnds /\ Top.op = "try_set"
            => \A d \in MapsOf(Top.sig) :
                  signals'[d].handles + signals'[d].upgraded > 0
                  => TryGetIn(signals', cells', d) =
                        [res |-> "Ok", val |-> MapFn(Top.val)]
        /\ \A d \in 1..Len(signals) :
              /\ \E m \in Subscriptions : Issued(m)
              /\ call'.sig = d /\ call.op = "map" /\ ret.op = "map" /\ ret.sig = d
              /\ Alive(call.sig) /\ TryGet(call.sig).res = "Ok"
              => /\ Len(stack') = Depth + 2
                 /\ stack'[Depth + 2].kind = "cb"
                 /\ stack'[Depth + 2].val = MapFn(TryGet(call.sig).val)
      ]_vars

\* The call of map that creates d has not returned yet.
Creating(d) == \E k \in 1..Depth : stack[k].kind = "sub" /\ stack[k].target = d

\* The source s of the map relay into d holds a value, and no notification
\* pass of s, no mutation closure of s and no call of map creating d is
\* running.
MapSettled(s, d) ==
    /\ Alive(s) /\ Alive(d) /\ ~panicked /\ Cell(s).value # None
    /\ ~InPass(s) /\ ~InMutate(s) /\ ~Creating(d)

\* Every derived signal whose source is settled reads as the mapped value.
MapLawHolds ==
    \A s \in 1..Len(signals) :
      \A d \in MapsOf(s) :
        MapSettled(s, d)
        => TryGet(d) = [res |-> "Ok", val |-> MapFn(Cell(s).value)]

\* C7 (amended): for every map relay of a source s into a derived signal d,
\* both alive, once map has returned d: whenever s holds a value v and
\* neither a notification pass nor a mutation closure of s is running,
\* d.try_get() is Ok(MapFn(v)), and a callback registered on d in such a
\* state is invoked in the same step with MapFn(v).
C7_MapLaw ==
    [][ /\ MapLawHolds'
        /\ \A s \in 1..Len(signals) :
              \A d \in MapsOf(s) :
                /\ \E m \in Subscriptions : Issued(m)
                /\ call'.sig = d /\ MapSettled(s, d)
                => /\ Len(stack') = Depth + 2
                   /\ stack'[Depth + 2].kind = "cb"
                   /\ stack'[Depth + 2].sig = d
                   /\ stack'[Depth + 2].val = MapFn(Cell(s).value)
      ]_vars

\* After a set on the source, the derived signal holds the mapped value and
\* its subscriber has received the mapped values at registration and at
\* the set.
C7_Witness ==
    /\ Depth = 0 /\ ~panicked /\ Len(signals) = 2
    /\ written[1] # None /\ ret.op = "try_set" /\ ret.pass
    /\ TryGet(2) = [res |-> "Ok", val |-> MapFn(written[1])]
    /\ \E k \in 1..Len(signals[2].broadcast.subscribers) :
          LET e == signals[2].broadcast.subscribers[k]
          IN e.count = 2 /\ e.last = MapFn(written[1])

\* ------------------------------------------------------------------ C8
StrictlyAscending(seq) == \A j, k \in 1..Len(seq) : j < k => seq[j] < seq[k]

\* C8: a pass invokes only active subscribers, each one with an id above all
\* ids it invoked before; at the end of the pass the ids invoked are strictly
\* ascending (none twice), every remaining subscriber is among them and has
\* received the value of the pass; and every subscriber list stays strictly
\* sorted by id, whatever was unsubscribed.
C8_RegistrationOrder ==
    [][ /\ PassInvokes
            => LET subs == signals[Top.sig].broadcast.subscribers
                   id == stack'[Depth + 1].id
               IN /\ subs[Top.i + 1].id = id /\ subs[Top.i + 1].active
                  /\ \A j \in 1..Len(Top.seen) : Top.seen[j] < id
                  /\ stack'[Depth + 1].val = Cell(Top.sig).value
        /\ PassEnds
            => LET subs == signals'[Top.sig].broadcast.subscribers
               IN /\ StrictlyAscending(Top.seen)
                  /\ Ids(subs) \subseteq {Top.seen[k] : k \in 1..Len(Top.seen)}
                  /\ \A k \in 1..Len(subs) : subs[k].last = Top.val
        /\ \A s \in 1..Len(signals') :
              StrictlyAscending([k \in 1..Len(signals'[s].broadcast.subscribers)
                                   |-> signals'[s].broadcast.subscribers[k].id])
      ]_vars

\* A pass over two subscribers ended, after another subscriber had been
\* unsubscribed.
C8_Witness ==
    /\ ret.pass /\ ret.op \in Writes /\ Len(ret.seen) >= 2
    /\ \E c \in cancelled :
          /\ c.sig = ret.sig
          /\ \E k \in 1..Len(ret.seen) : c.id < ret.seen[k]

\* ------------------------------------------------------------------ C9
\* The entries of a subscriber list other than the one with this id.
RECURSIVE Others(_, _)
Others(subs, id) ==
    IF subs = <<>> THEN <<>>
    ELSE IF Head(subs).id = id THEN Others(Tail(subs), id)
         ELSE <<Head(subs)>> \o Others(Tail(subs), id)

\* C9: a call of unsubscribe does not panic and touches nothing but the
\* subscriber list of the token's signal, where every entry other than the
\* token's is left as it was; it changes nothing at all when the token was
\* used before or the signal has no strong reference left, however many
\* tokens exist; it leaves the active subscribers as they were when the
\* subscription had been cancelled before; and when it reaches the
\* broadcast, the token's entry is gone or inactive afterwards.
C9_TokenCancelsOnce ==
    [][ Issued("unsubscribe")
          => LET s == ret'.sig
                 id == ret'.id
             IN /\ ret'.op = "unsubscribe"
                /\ UNCHANGED <<stack, cells, panicked>>
                /\ \A x \in 1..Len(signals) : x # s => signals'[x] = signals[x]
                /\ Others(signals'[s].broadcast.subscribers, id)
                     = Others(signals[s].broadcast.subscribers, id)
                /\ ret'.res \in {"taken", "dead"} => signals' = signals
                /\ ret'.res = "taken" => tokens' = tokens
                /\ StrongCount(s) = 0 => ret'.res \in {"taken", "dead"}
                /\ (\E c \in cancelled : c.sig = s /\ c.id = id)
                     => RetainActive(signals'[s].broadcast.subscribers)
                          = RetainActive(signals[s].broadcast.subscribers)
                /\ ret'.res = "called"
                     => \A k \in 1..Len(signals'[s].broadcast.subscribers) :
                           LET e == signals'[s].broadcast.subscribers[k]
                           IN e.id = id => ~e.active
      ]_vars

\* unsubscribe was called through a second token of a subscription that had
\* been cancelled before through the first.
C9_Witness ==
    /\ ret.op = "unsubscribe" /\ ret.res = "called"
    /\ \E t, u \in 1..Len(tokens) :
          /\ t # u
          /\ tokens[t].sig = ret.sig /\ tokens[t].id = ret.id /\ ~tokens[t].some
          /\ tokens[u].sig = ret.sig /\ tokens[u].id = ret.id /\ ~tokens[u].some

\* ------------------------------------------------------------------ C10
\* C10: try_get called on a signal while the mutation closure of that signal
\* is running returns the Updating error and no value, and panics exactly in
\* its unwrapping form (get).
C10_GetInMutate ==
    [][ \A s \in 1..Len(signals) :
           Issued("try_get") /\ call'.sig = s /\ InMutate(s)
           => /\ ret'.op = "try_get" /\ ret'.res = "Updating"
              /\ ret'.val = None
              /\ panicked' = call'.unwrap
              /\ UNCHANGED <<signals, cells, stack>>
      ]_vars

\* try_get was refused inside a mutation closure that had already written.
C10_Witness ==
    /\ Depth > 0 /\ Top.kind = "mutate" /\ Top.wrote
    /\ call.op = "try_get" /\ ret.op = "try_get" /\ ret.res = "Updating"
    /\ Cell(Top.sig).value # Top.val

\* ------------------------------------------------------------------ C11
\* A write on the cell of s is in progress: its mutation closure or the
\* notification pass that follows the store is running.
Writing(s) ==
    \/ InMutate(s)
    \/ \E k \in 1..Depth :
          /\ stack[k].kind = "notify"
          /\ signals[stack[k].sig].data = signals[s].data

\* C11: try_get returns Ok when the cell holds a value and no call on it is
\* running, fails when the cell holds no value, and fails with the Updating
\* error whenever a write on the cell is in progress, the notification pass
\* of the write included.
C11_TryGetIffIdle ==
    [][ \A s \in 1..Len(signals) :
           Issued("try_get") /\ call'.sig = s
           => /\ Cell(s).value # None /\ CellFree(s) => ret'.res = "Ok"
              /\ Cell(s).value = None => ret'.res # "Ok"
              /\ Cell(s).value # None /\ Writing(s) => ret'.res = "Updating"
      ]_vars

\* ------------------------------------------------------------------ C12
\* C12: on a signal whose cell holds no value, try_get returns the Uninit
\* error, changes nothing and panics exactly in its unwrapping form; a
\* try_set on it is not refused, stores its value and starts the notification
\* pass with that value; and once a write has succeeded try_get returns Ok
\* with the value written last.
C12_UninitUntilFirstWrite ==
    [][ \A s \in 1..Len(signals) :
          /\ Issued("try_get") /\ call'.sig = s /\ Cell(s).value = None
                => /\ ret'.op = "try_get" /\ ret'.res = "Uninit"
                   /\ ret'.val = None
                   /\ panicked' = call'.unwrap
                   /\ UNCHANGED <<signals, cells, stack>>
          /\ Issued("try_set") /\ call'.sig = s /\ Cell(s).value = None
                => /\ ~panicked'
                   /\ cells'[signals[s].data].value \in Values
                   /\ written'[s] = cells'[signals[s].data].value
                   /\ Len(stack') = Depth + 1
                   /\ stack'[Depth + 1].kind = "notify"
                   /\ stack'[Depth + 1].sig = s
                   /\ stack'[Depth + 1].val = written'[s]
          /\ Issued("try_get") /\ call'.sig = s /\ written[s] # None
                /\ ~InMutate(s)
                => ret'.res = "Ok" /\ ret'.val = written[s]
      ]_vars

\* try_get returned the value of the first write of a signal created
\* uninitialised: its subscriber, registered before the write, was invoked
\* by the write only.
C12_Witness ==
    /\ Depth = 0 /\ ops = 3
    /\ ret.op = "try_get" /\ ret.res = "Ok" /\ ret.val = written[1]
    /\ \E k \in 1..Len(signals[1].broadcast.subscribers) :
          LET e == signals[1].broadcast.subscribers[k]
          IN e.count = 1 /\ e.last = written[1]

\* ------------------------------------------------------------------ C13
\* C13: try_mutate on a signal whose cell holds no value returns an error
\* other than the one a busy cell gives, does not run the mutation closure,
\* starts no notification pass and leaves the cell without a value.
C13_MutateUninit ==
    [][ \A s \in 1..Len(signals) :
           Issued("try_mutate") /\ call'.sig = s /\ Cell(s).value = None
           => /\ ret'.op = "try_mutate"
              /\ ret'.res \notin {"Ok", SignalUpdatingError}
              /\ UNCHANGED <<signals, cells, stack>>
      ]_vars

\* ------------------------------------------------------- derived signals
\* The signals derived from s by operator op whose relay is subscribed to s.
DerivedBy(op, s) ==
    {signals[s].broadcast.subscribers[k].target :
        k \in {j \in 1..Len(signals[s].broadcast.subscribers) :
                  signals[s].broadcast.subscribers[j].ckind = op}}

\* The relay of the derived signal d in the subscriber list of s.
RelayOf(s, d) ==
    signals[s].broadcast.subscribers[
        CHOOSE k \in 1..Len(signals[s].broadcast.subscribers) :
            signals[s].broadcast.subscribers[k].target = d]

\* The step is the end of the notification pass of a write on a source.
WriteEnds == PassEnds /\ Top.op \in Writes

\* Signal d existed when the pass of frame f began.
Before(f, d) == d <= Len(f.snap)

\* After the step every subscriber of d that was registered when the pass
\* of frame f began and is still registered has been invoked `times` times
\* since.
InvokedSince(f, d, times) ==
    \A k \in 1..Len(signals'[d].broadcast.subscribers) :
      \A j \in 1..Len(f.snap[d]) :
        LET e == signals'[d].broadcast.subscribers[k]
        IN f.snap[d][j][1] = e.id => e.count = f.snap[d][j][2] + times

\* After the step the subscribers counted by InvokedSince hold value u as
\* the last they were invoked with.
LastSince(f, d, u) ==
    \A k \in 1..Len(signals'[d].broadcast.subscribers) :
      \A j \in 1..Len(f.snap[d]) :
        LET e == signals'[d].broadcast.subscribers[k]
        IN f.snap[d][j][1] = e.id => e.last = u

\* ------------------------------------------------------------------ C14
\* C14: when the notification pass of a write of v on s ends, every
\* subscriber of a filter signal d of s that was registered on d before the
\* write and still is has been invoked exactly once since, with v, if the
\* predicate holds for v, and not at all if it does not.
C14_FilterGates ==
    [][ WriteEnds
          => \A d \in DerivedBy("filter", Top.sig) :
                Before(Top, d) /\ Alive(d)
                => IF FilterPredicate(Top.val)
                   THEN InvokedSince(Top, d, 1) /\ LastSince(Top, d, Top.val)
                   ELSE InvokedSince(Top, d, 0)
      ]_vars

\* A write of a value the predicate accepts has returned, and a subscriber
\* of the filter signal, registered before the write, received the current
\* value at registration and the written value from the write.
C14_Witness ==
    /\ Depth = 0 /\ Len(signals) = 2
    /\ ret.op = "try_set" /\ ret.pass /\ FilterPredicate(ret.val)
    /\ DerivedBy("filter", 1) = {2}
    /\ ret.id > RelayOf(1, 2).id
    /\ \E k \in 1..Len(signals[2].broadcast.subscribers) :
          LET e == signals[2].broadcast.subscribers[k]
          IN e.count = 2 /\ e.last = ret.val /\ e.ckind = "user"

\* ------------------------------------------------------------------ C15
\* C15: a filter signal d of s has the data cell of s, no cell is allocated
\* for it, and in every state d.try_get() gives what s.try_get() gives.
C15_FilterSharesCell ==
    /\ Len(cells) = 1
    /\ \A s \in 1..Len(signals) :
         \A d \in DerivedBy("filter", s) :
           /\ signals[d].data = signals[s].data
           /\ Alive(s) /\ Alive(d) => TryGet(d) = TryGet(s)

\* A write of a value the predicate rejects has returned, the relay of the
\* filter signal was subscribed before it, and the filter signal reads as
\* that value.
C15_Witness ==
    /\ Depth = 0 /\ Len(signals) = 2
    /\ ret.op = "try_set" /\ ret.pass /\ ~FilterPredicate(ret.val)
    /\ DerivedBy("filter", 1) = {2}
    /\ ret.id > RelayOf(1, 2).id
    /\ RelayOf(1, 2).last = ret.val
    /\ Alive(1) /\ Alive(2)
    /\ TryGet(2) = [res |-> "Ok", val |-> ret.val]

\* ------------------------------------------------------------------ C16
\* The step runs the relay of operator op to completion of its own code.
RelayRuns(op) ==
    /\ Depth > 0 /\ Top.kind = "cb" /\ Top.ckind = op /\ Top.pc = "start"
    /\ Alive(Top.target)
    /\ ~panicked /\ ~panicked'

\* The step starts a notification pass on d with value u.
PassStarts(d, u) ==
    /\ Len(stack') = Depth + 1
    /\ stack'[Depth + 1].kind = "notify"
    /\ stack'[Depth + 1].sig = d
    /\ stack'[Depth + 1].val = u

\* The step is the end of the pass a relay started on a signal derived by
\* operator op.
RelayPassEnds(op) ==
    /\ PassEnds /\ Top.op = "relay"
    /\ \E s \in 1..Len(signals) : Top.sig \in DerivedBy(op, s)

\* C16: a signal d made by filter_map is created uninitialised and stays so
\* until its relay gets Some; the relay run on v with f(v) = Some(u) leaves
\* d.try_get() = Ok(u) and starts a pass on d with u, in which every
\* subscriber of d is invoked once with u; the relay run on v with
\* f(v) = None changes nothing of d and starts no pass; and the value of d
\* changes in no other step.  (Steps in which the relay panics excepted.)
C16_FilterMapWrites ==
    [][ /\ Issued("filter_map")
           => /\ cells'[signals'[Len(signals')].data].value = None
              /\ signals'[Len(signals')].data \notin 1..Len(cells)
        /\ RelayRuns("filter_map")
           => IF FilterMapFn(Top.val) # None
              THEN /\ TryGetIn(signals', cells', Top.target) =
                        [res |-> "Ok", val |-> FilterMapFn(Top.val)]
                   /\ PassStarts(Top.target, FilterMapFn(Top.val))
              ELSE /\ cells' = cells
                   /\ signals'[Top.target] = signals[Top.target]
                   /\ Len(stack') = Depth
        /\ RelayPassEnds("filter_map")
           => /\ InvokedSince(Top, Top.sig, 1)
              /\ LastSince(Top, Top.sig, Top.val)
        /\ \A s \in 1..Len(signals) :
             \A d \in DerivedBy("filter_map", s) :
               /\ cells'[signals[d].data].value # Cell(d).value
                  => /\ RelayRuns("filter_map") /\ Top.target = d
                     /\ FilterMapFn(Top.val) # None
               /\ written'[d] = None => cells'[signals[d].data].value = None
      ]_vars

\* A write of v with f(v) = Some(u) has returned, the derived signal reads
\* as u, and a subscriber registered on it before the write was invoked
\* with u.
C16_Witness ==
    /\ Depth = 0 /\ Len(signals) = 2
    /\ ret.op = "try_set" /\ ret.pass /\ FilterMapFn(ret.val) # None
    /\ DerivedBy("filter_map", 1) = {2}
    /\ ret.id > RelayOf(1, 2).id
    /\ Alive(2)
    /\ TryGet(2) = [res |-> "Ok", val |-> FilterMapFn(ret.val)]
    /\ \E k \in 1..Len(signals[2].broadcast.subscribers) :
          LET e == signals[2].broadcast.subscribers[k]
          IN e.count = 1 /\ e.last = FilterMapFn(ret.val) /\ e.ckind = "user"

\* ------------------------------------------------------------------ C17
\* C17: a signal d made by fold is created holding init; every run of its
\* relay, on the value v delivered to it, replaces the accumulator acc of d
\* by f(acc, v) and starts a pass on d in which every subscriber of d is
\* invoked once with the new accumulator; and the accumulator changes in no
\* other step.  (Steps in which the relay panics excepted.)
C17_FoldAccumulates ==
    [][ /\ Issued("fold")
           => /\ cells'[signals'[Len(signals')].data].value = FoldInit
              /\ signals'[Len(signals')].data \notin 1..Len(cells)
        /\ RelayRuns("fold")
           => /\ TryGetIn(signals', cells', Top.target) =
                   [res |-> "Ok",
                    val |-> FoldFn(Cell(Top.target).value, Top.val)]
              /\ PassStarts(Top.target,
                            FoldFn(Cell(Top.target).value, Top.val))
        /\ RelayPassEnds("fold")
           => /\ InvokedSince(Top, Top.sig, 1)
              /\ LastSince(Top, Top.sig, Top.val)
        /\ \A s \in 1..Len(signals) :
             \A d \in DerivedBy("fold", s) :
               cells'[signals[d].data].value # Cell(d).value
               => RelayRuns("fold") /\ Top.target = d
      ]_vars

\* The source held v0 when fold was called and was then written with v1: the
\* relay ran twice, the derived signal reads as f(f(init, v0), v1), and a
\* subscriber registered on it between the two was invoked with that value.
C17_Witness ==
    /\ Depth = 0 /\ Len(signals) = 2
    /\ ret.op = "try_set" /\ ret.pass
    /\ DerivedBy("fold", 1) = {2}
    /\ RelayOf(1, 2).count = 2
    /\ Alive(2)
    /\ \E v0 \in Values :
         LET acc == FoldFn(FoldFn(FoldInit, v0), ret.val)
         IN /\ TryGet(2) = [res |-> "Ok", val |-> acc]
            /\ \E k \in 1..Len(signals[2].broadcast.subscribers) :
                 LET e == signals[2].broadcast.subscribers[k]
                 IN e.count = 2 /\ e.last = acc /\ e.ckind = "user"

\* ------------------------------------------------------------------ C18
\* The relay of the derived signal d is subscribed nowhere any more.
Terminated(d) ==
    /\ ~signals[d].mutable
    /\ \A s \in 1..Len(signals) :
         \A k \in 1..Len(signals[s].broadcast.subscribers) :
           LET e == signals[s].broadcast.subscribers[k]
           IN e.ckind \in Operators /\ e.target = d => ~e.active

\* The same in the state after the step.
TerminatedNext(d) ==
    \A s \in 1..Len(signals') :
      \A k \in 1..Len(signals'[s].broadcast.subscribers) :
        LET e == signals'[s].broadcast.subscribers[k]
        IN e.ckind \in Operators /\ e.target = d => ~e.active

\* C18: the relay of a signal d made by map_while, run on v, sets d to u and
\* starts a pass on d when f(v) = Some(u), and unsubscribes itself, leaving
\* d as it is, when f(v) = None; once the relay is unsubscribed it stays so,
\* the value of d changes in no step and no pass starts on d, whatever is
\* written to the source, and a write on the source from outside any
\* callback still stores its value and starts a pass on the source.  (Steps
\* in which the relay panics excepted.)
C18_MapWhileTerminal ==
    [][ /\ RelayRuns("map_while")
           => IF MapWhileFn(Top.val) # None
              THEN /\ TryGetIn(signals', cells', Top.target) =
                        [res |-> "Ok", val |-> MapWhileFn(Top.val)]
                   /\ PassStarts(Top.target, MapWhileFn(Top.val))
              ELSE /\ TerminatedNext(Top.target)
                   /\ cells' = cells
                   /\ Len(stack') = Depth
        /\ \A d \in 1..Len(signals) :
             Terminated(d)
             => /\ TerminatedNext(d)
                /\ cells'[signals[d].data].value = Cell(d).value
                /\ ~(/\ Len(stack') = Depth + 1
                     /\ stack'[Depth + 1].kind = "notify"
                     /\ stack'[Depth + 1].sig = d)
                /\ \A s \in 1..Len(signals) :
                     Issued("try_set") /\ call'.sig = s /\ Depth = 0
                     => /\ written'[s] \in Values
                        /\ PassStarts(s, written'[s])
      ]_vars

\* The derived signal was set from the source's value, a write of v with
\* f(v) = None unsubscribed the relay, and a later write of a value with
\* f(v) = Some(u) has returned Ok with the derived signal alive and still
\* holding what it held.
C18_Witness ==
    /\ Depth = 0 /\ Len(signals) = 2 /\ ops = 3
    /\ Alive(2) /\ Terminated(2)
    /\ ret.op = "try_set" /\ ret.res = "Ok" /\ ret.pass
    /\ MapWhileFn(ret.val) # None
    /\ written[2] # None
    /\ TryGet(2) = [res |-> "Ok", val |-> written[2]]

\* ------------------------------------------------------------------ C19
\* C19: when the pass of a write on s ends, the subscribers of a signal d
\* made by s.skip(n) before the write have not been invoked by it if it is
\* one of the first n writes made after the call of skip, and have been
\* invoked exactly once, with the written value, if it is a later one.
C19_SkipStated ==
    [][ WriteEnds
          => \A d \in DerivedBy("skip", Top.sig) :
                Before(Top, d) /\ Alive(d)
                => IF RelayOf(Top.sig, d).writes <= RelayOf(Top.sig, d).n
                   THEN InvokedSince(Top, d, 0)
                   ELSE InvokedSince(Top, d, 1) /\ LastSince(Top, d, Top.val)
      ]_vars

\* ------------------------------------------------------------------ C20
\* The relay entries of skip_while, as <<source, position>>.
SkipWhileRelays ==
    {p \in (1..Len(signals)) \X (1..MaxSubs) :
        /\ p[2] <= Len(signals[p[1]].broadcast.subscribers)
        /\ signals[p[1]].broadcast.subscribers[p[2]].ckind = "skip_while"}

\* C20: the relay of a signal d made by skip_while, run on v while it still
\* has its predicate p, returns without a pass on d if p(v) holds, and drops
\* p and starts a pass on d with v if not; run after it dropped p, it starts
\* a pass on d with v whatever p(v) would be; a dropped predicate is never
\* restored; and when the pass of a write on the source ends, the
\* subscribers d had before the write have not been invoked since if the
\* relay still has p (and then p holds of the written value), and have been
\* invoked exactly once, with the written value, if it has not.
C20_SkipWhileForwards ==
    [][ /\ RelayRuns("skip_while")
           => LET s == Top.sig
                  k == IndexOf(signals[s].broadcast.subscribers, Top.id)
              IN IF /\ signals[s].broadcast.subscribers[k].option
                    /\ SkipWhilePredicate(Top.val)
                 THEN /\ signals'[s].broadcast.subscribers[k].option
                      /\ cells' = cells
                      /\ Len(stack') = Depth
                 ELSE /\ ~signals'[s].broadcast.subscribers[k].option
                      /\ PassStarts(Top.target, Top.val)
        /\ \A p \in SkipWhileRelays :
             LET id == signals[p[1]].broadcast.subscribers[p[2]].id
                 k == IndexOf(signals'[p[1]].broadcast.subscribers, id)
             IN /\ ~signals[p[1]].broadcast.subscribers[p[2]].option
                /\ k > 0
                => ~signals'[p[1]].broadcast.subscribers[k].option
        /\ WriteEnds
           => \A d \in DerivedBy("skip_while", Top.sig) :
                Before(Top, d) /\ Alive(d)
                => IF RelayOf(Top.sig, d).option
                   THEN /\ SkipWhilePredicate(Top.val)
                        /\ InvokedSince(Top, d, 0)
                   ELSE /\ InvokedSince(Top, d, 1)
                        /\ LastSince(Top, d, Top.val)
      ]_vars

\* The predicate failed on an earlier value, and a write of a value on
\* which it holds has returned: a subscriber registered on the derived
\* signal before the write was invoked with the written value.
C20_Witness ==
    /\ Depth = 0 /\ Len(signals) = 2
    /\ ret.op = "try_set" /\ ret.pass /\ SkipWhilePredicate(ret.val)
    /\ DerivedBy("skip_while", 1) = {2}
    /\ ret.id > RelayOf(1, 2).id
    /\ ~RelayOf(1, 2).option
    /\ \E k \in 1..Len(signals[2].broadcast.subscribers) :
          LET e == signals[2].broadcast.subscribers[k]
          IN e.count = 2 /\ e.last = ret.val /\ e.ckind = "user"

InvokedOnceWith(f, d, u) ==
    \A k \in 1..Len(signals[d].broadcast.subscribers) :
      \A j \in 1..Len(f.snap[d]) :
        LET e == signals[d].broadcast.subscribers[k]
        IN f.snap[d][j][1] = e.id
           => e.count = f.snap[d][j][2] + 1 /\ e.last = u

\* The signal d, made by map from a signal holding v, and the signals made
\* by map from d have taken their values in the pass of frame f and their
\* subscribers have been invoked with them.
Cascaded(f, d, v) ==
    /\ TryGet(d) = [res |-> "Ok", val |-> MapFn(v)]
    /\ InvokedOnceWith(f, d, MapFn(v))
    /\ \A d2 \in MapsOf(d) :
         Before(f, d2) /\ Alive(d2)
         => /\ TryGet(d2) = [res |-> "Ok", val |-> MapFn(MapFn(v))]
            /\ InvokedOnceWith(f, d2, MapFn(MapFn(v)))

\* C22: when the pass of a write of v on a signal s ends, every living
\* signal made by map from s before the write, and every living signal made
\* by map from one of those, holds its mapped value and has invoked each of
\* its subscribers once with it; and when the pass of s comes to invoke a
\* callback registered on s after the relay of such a signal, that has
\* already happened.
C22_CascadeDepthFirst ==
    [][ /\ WriteEnds
           => \A d \in MapsOf(Top.sig) :
                Before(Top, d) /\ Alive(d) => Cascaded(Top, d, Top.val)
        /\ PassInvokes /\ Top.op \in Writes
           => LET subs == signals[Top.sig].broadcast.subscribers
                  e == subs[Top.i + 1]
              IN e.ckind = "user"
                 => \A k \in 1..Top.i :
                      /\ subs[k].ckind = "map" /\ subs[k].active
                      /\ Before(Top, subs[k].target) /\ Alive(subs[k].target)
                      => Cascaded(Top, subs[k].target, Top.val)
      ]_vars

\* A write on the source of the chain s, d1 = s.map(f), d2 = d1.map(f) has
\* returned: d2 reads as f(f(v)), a subscriber of d2 was invoked with it,
\* and the pass of s invoked the relay and then a callback registered on s.
C22_Witness ==
    /\ Depth = 0 /\ Len(signals) = 3
    /\ ret.op = "try_set" /\ ret.sig = 1 /\ ret.pass /\ ret.seen = <<0, 1>>
    /\ Alive(2) /\ Alive(3)
    /\ TryGet(3) = [res |-> "Ok", val |-> MapFn(MapFn(ret.val))]
    /\ \E k \in 1..Len(signals[3].broadcast.subscribers) :
          LET e == signals[3].broadcast.subscribers[k]
          IN e.count = 1 /\ e.last = MapFn(MapFn(ret.val)) /\ e.ckind = "user"

\* ------------------------------------------------------------------ C23
\* Token t is the one the step drops.
Dropped(t) == Issued("drop") /\ ~tokens[t].gone /\ tokens'[t].gone

\* Token t is the wrapper the step calls take on.
Unwrapped(t) == Issued("take") /\ tokens[t].wrapped /\ ~tokens'[t].wrapped

\* C23: dropping a DropUnsubscriber that still holds its subscription, of a
\* living signal, changes the signals exactly as Broadcast::unsubscribe with
\* its id does, and the entry is gone or inactive afterwards; dropping one
\* that was used or taken from before changes no signal; take changes no
\* signal and leaves a plain token for the same subscription that holds it
\* if the wrapper did; neither touches the stack, the cells or the panic
\* flag; and no callback is ever invoked for a subscription cancelled before.
C23_DropCancels ==
    [][ /\ \A t \in 1..Len(tokens) :
             /\ Dropped(t)
                => /\ UNCHANGED <<stack, cells, panicked>>
                   /\ ~tokens'[t].some
                   /\ IF tokens[t].some /\ Alive(tokens[t].sig)
                      THEN /\ signals' =
                                [signals EXCEPT ![tokens[t].sig].broadcast =
                                    BroadcastUnsubscribe(@, tokens[t].id)]
                           /\ \A k \in 1..Len(signals'[tokens[t].sig]
                                                .broadcast.subscribers) :
                                LET e == signals'[tokens[t].sig]
                                            .broadcast.subscribers[k]
                                IN e.id = tokens[t].id => ~e.active
                      ELSE signals' = signals
             /\ Unwrapped(t)
                => /\ UNCHANGED <<stack, cells, panicked, signals>>
                   /\ tokens'[t] = [tokens[t] EXCEPT !.wrapped = FALSE]
                   /\ ~tokens'[t].gone
        /\ \A k \in 1..Len(stack') : stack'[k].kind = "cb" => ~stack'[k].stale
      ]_vars

\* A subscription was made, its token wrapped and the wrapper dropped, and
\* a later write has returned without invoking anything.
C23_Witness ==
    /\ Depth = 0
    /\ ret.op = "try_set" /\ ret.pass /\ ret.seen = <<>>
    /\ \E t \in 1..Len(tokens) :
          /\ tokens[t].wrapped /\ tokens[t].gone
          /\ \E c \in cancelled : c.sig = tokens[t].sig /\ c.id = tokens[t].id

\* ------------------------------------------------------------------ C24
\* The number of running closures that were given to a plain value.
ValueCalls(st) == Cardinality({k \in 1..Len(st) : st[k].how = "value"})

\* C24: for_each and for_each_inner on a plain value call the closure in the
\* same step, with the value, and store nothing (no subscriber entry, no
\* token, no cell is touched); a closure given to a plain value runs in no
\* other step, whatever is written or subscribed later; when the closure
\* returns, for_each returns with it; and unsubscribe on the () handed out
\* changes nothing.
C24_PlainValueOnce ==
    [][ /\ (\E m \in {"for_each", "for_each_inner"} : Issued(m)) /\ call'.sig = 0
           => /\ Len(stack') = Depth + 2
              /\ SubSeq(stack', 1, Depth) = stack
              /\ stack'[Depth + 1].kind = "value"
              /\ stack'[Depth + 1].mode = call'.op
              /\ stack'[Depth + 2].kind = "cb"
              /\ stack'[Depth + 2].how = "value"
              /\ stack'[Depth + 2].val \in Values
              /\ stack'[Depth + 2].val = stack'[Depth + 1].val
              /\ UNCHANGED <<signals, cells, tokens, cancelled, panicked>>
        /\ ValueCalls(stack') > ValueCalls(stack)
           => /\ ops' = ops + 1 /\ call'.sig = 0
              /\ call'.op \in {"for_each", "for_each_inner"}
              /\ ValueCalls(stack') = ValueCalls(stack) + 1
        /\ ValueCalls(stack') < ValueCalls(stack)
           => /\ Top.how = "value"
              /\ stack' = SubSeq(stack, 1, Depth - 2)
              /\ ret'.op = stack[Depth - 1].mode /\ ret'.val = Top.val
              /\ UNCHANGED <<signals, cells, tokens, cancelled, panicked>>
        /\ Issued("unsubscribe") /\ call'.sig = 0
           => UNCHANGED <<signals, cells, stack, tokens, cancelled, panicked>>
      ]_vars

\* Inside the closure given to for_each_inner on a plain value, called from
\* the main line, unsubscribe was called on the () and the closure is still
\* the running code.
C24_Witness ==
    /\ Depth = 2
    /\ stack[1].kind = "value" /\ stack[1].mode = "for_each_inner"
    /\ Top.how = "value" /\ Top.val \in Values
    /\ call.op = "unsubscribe" /\ call.sig = 0
    /\ ret.op = "unsubscribe" /\ ret.res = "unit"

\* ------------------------------------------------------------------ C25
\* The subscription of entry e of signal s was cancelled from outside its
\* own callback.
CancelledByOther(s, e) ==
    \E c \in cancelled : c.sig = s /\ c.id = e.id /\ ~c.self

\* The pass on top of the stack has come to an entry whose subscription was
\* cancelled from another callback.
MeetsCancelled ==
    /\ Depth > 0 /\ Top.kind = "notify"
    /\ Top.i < Len(signals[Top.sig].broadcast.subscribers)
    /\ CancelledByOther(Top.sig,
                        signals[Top.sig].broadcast.subscribers[Top.i + 1])

C26_NoInactiveWhenIdle ==
    \A s \in 1..Len(signals) :
      signals[s].broadcast.state = "Idling"
      => \A k \in 1..Len(signals[s].broadcast.subscribers) :
            signals[s].broadcast.subscribers[k].active

\* ------------------------------------------------------------------ C27
\* C27: in every step, the id counter of a registry never decreases; a step
\* that leaves the length of the list alone leaves its ids and the counter
\* alone; and after a step that appended or removed entries (the list is
\* empty at first), an entry that is new in the list carries the value the
\* counter had before the step and the counter is above it (so no id is
\* handed out twice, whatever was unsubscribed), every id in the list is
\* below the counter, the list is strictly sorted by id, and the binary
\* search of unsubscribe answers with the index of the entry of that id when
\* there is one, and with none exactly when there is none.
C27_IdsNeverReused ==
    [][ \A s \in 1..Len(signals) :
          LET b == signals[s].broadcast
              after == signals'[s].broadcast
              subs == after.subscribers
          IN /\ after.next_id >= b.next_id
             /\ IF Len(subs) = Len(b.subscribers)
                THEN /\ after.next_id = b.next_id
                     /\ \A k \in 1..Len(subs) : subs[k].id = b.subscribers[k].id
                ELSE /\ \A id \in Ids(subs) \ Ids(b.subscribers) :
                           id = b.next_id /\ after.next_id = id + 1
                     /\ \A k \in 1..Len(subs) : subs[k].id < after.next_id
                     /\ StrictlyAscending([k \in 1..Len(subs) |-> subs[k].id])
                     /\ \A id \in 0..after.next_id :
                           LET index == BinarySearch(subs, id)
                           IN IF \E k \in 1..Len(subs) : subs[k].id = id
                              THEN index # 0 /\ subs[index].id = id
                              ELSE index = 0
      ]_vars

\* A list of two entries with a gap between their ids: the entry between
\* them was unsubscribed and removed, and the binary search finds the later one.
C27_Witness ==
    \E s \in 1..Len(signals) :
      LET subs == signals[s].broadcast.subscribers
      IN /\ Len(subs) = 2
         /\ subs[2].id = subs[1].id + 2
         /\ \E c \in cancelled : c.sig = s /\ c.id = subs[1].id + 1
         /\ BinarySearch(subs, subs[2].id) = 2

\* ------------------------------------------------------------------ C28
\* C28: a try_set/try_mutate issued on a signal by a callback that is being
\* handed the current value at its registration on that same signal returns
\* the error at once (and panics only in its unwrapping form): the value, the
\* subscriber list and the call stack are as before, so no pass was started.
C28_WriteInDeliveryRejected ==
    [][ \A s \in 1..Len(signals) :
          /\ (\E op \in Writes : Issued(op)) /\ call'.sig = s
          /\ Depth > 0 /\ Top.kind = "cb" /\ Top.how = "subscribe" /\ Top.sig = s
          => /\ ret'.op = call'.op /\ ret'.res = "Err" /\ ~ret'.pass
             /\ panicked' = call'.unwrap
             /\ UNCHANGED <<signals, cells, stack, written>>
      ]_vars

\* A write was refused inside a callback running at its registration, the
\* value it was handed still being the value of the signal.
C28_Witness ==
    /\ ret.op \in Writes /\ ret.res = "Err" /\ ~panicked
    /\ Depth > 0 /\ Top.kind = "cb" /\ Top.how = "subscribe" /\ Top.sig = ret.sig
    /\ <<Top.sig, Top.id>> \in refused
    /\ Cell(Top.sig).value = Top.val

\* ------------------------------------------------------------------ C29
\* The step issues a subscription on signal s from inside the mutation
\* closure of a try_mutate on s.
SubscribesInMutate(s) ==
    /\ (\E m \in Subscriptions : Issued(m)) /\ call'.sig = s
    /\ Depth > 0 /\ Top.kind = "mutate" /\ Top.sig = s

\* The step is the return of a mutation closure that starts a pass.
MutatePassStarts ==
    /\ Depth > 0 /\ Top.kind = "mutate"
    /\ Len(stack') = Depth /\ stack'[Depth].kind = "notify"

\* C29: a subscription issued on a signal inside the mutation closure of a
\* try_mutate on it returns at once without invoking the new callback; when
\* the closure returns, the entries registered inside it (those with an id
\* from the counter's value at the start of the closure on) have never been
\* invoked and the pass that starts carries the value the closure left; and
\* at the end of that pass every remaining entry that had never been invoked
\* when it started has been invoked exactly once, in this pass, with that value.
C29_SubscribedInMutate ==
    [][ /\ \A s \in 1..Len(signals) :
              SubscribesInMutate(s)
              => LET subs == signals'[s].broadcast.subscribers
                 IN /\ stack' = stack /\ cells' = cells
                    /\ ret'.op = call'.op /\ ret'.res = "Ok"
                    /\ subs[Len(subs)].id = ret'.id
                    /\ subs[Len(subs)].count = 0
        /\ MutatePassStarts
              => LET subs == signals[Top.sig].broadcast.subscribers
                 IN /\ stack'[Depth].val = Cell(Top.sig).value
                    /\ stack'[Depth].op = "try_mutate"
                    /\ written'[Top.sig] = Cell(Top.sig).value
                    /\ \A k \in 1..Len(subs) :
                          subs[k].id >= Top.first_new
                          => subs[k].count = 0 /\ subs[k].active
        /\ PassEnds /\ Top.op = "try_mutate"
              => LET subs == signals'[Top.sig].broadcast.subscribers
                     snap == Top.snap[Top.sig]
                 IN \A k \in 1..Len(subs), j \in 1..Len(snap) :
                       snap[j] = <<subs[k].id, 0>>
                       => /\ subs[k].count = 1
                          /\ subs[k].last = Top.val
                          /\ Occurrences(Top.seen, subs[k].id) = 1
      ]_vars

\* The first operation was a try_mutate on the value 1 whose closure wrote 2
\* and subscribed a callback; the pass of that try_mutate is invoking this
\* callback, for the first time, with 2.
C29_Witness ==
    /\ ops = 2 /\ call.op \in Subscriptions
    /\ Depth = 2 /\ Top.kind = "cb" /\ Top.how = "notify" /\ Top.val = 2
    /\ stack[1].kind = "notify" /\ stack[1].op = "try_mutate"
    /\ Top.id < stack[1].first_new
    /\ \E k \in 1..Len(signals[Top.sig].broadcast.subscribers) :
          LET e == signals[Top.sig].broadcast.subscribers[k]
          IN e.id = Top.id /\ e.count = 1 /\ e.last = 2

\* ------------------------------------------------------------------ C30
\* The running code is a callback being handed the value of signal s at its
\* registration.
InDelivery(s) ==
    Depth > 1 /\ Top.kind = "cb" /\ Top.how = "subscribe" /\ Top.sig = s

\* C30: a subscription issued on a signal by a callback that is being handed
\* the value at its own registration on that signal invokes the new callback
\* at once, with that same value, for the first time; when a callback invoked
\* at its registration returns, its for_each returns with it, the callback
\* having been invoked exactly once, with the value of the signal; and the
\* registry is idle after the return of the outermost of these subscriptions
\* and still subscribing after the return of an inner one.
C30_NestedSubscriptions ==
    [][ /\ \A s \in 1..Len(signals) :
              (\E m \in Subscriptions : Issued(m)) /\ call'.sig = s /\ InDelivery(s)
              => LET subs == signals'[s].broadcast.subscribers
                     new == subs[Len(subs)]
                 IN /\ Len(stack') = Depth + 2
                    /\ SubSeq(stack', 1, Depth) = stack
                    /\ stack'[Depth + 1].kind = "sub"
                    /\ stack'[Depth + 2].kind = "cb"
                    /\ stack'[Depth + 2].how = "subscribe"
                    /\ stack'[Depth + 2].id = new.id
                    /\ stack'[Depth + 2].val = Top.val
                    /\ Top.val = Cell(s).value
                    /\ new.id = signals[s].broadcast.next_id
                    /\ new.count = 1 /\ new.last = Top.val
                    /\ signals'[s].broadcast.state = "Subscribing"
        /\ ForEachReturns
              => LET s == Top.sig
                     subs == signals'[s].broadcast.subscribers
                     outermost == \A k \in 1..(Depth - 2) :
                                     ~(stack[k].kind = "sub" /\ stack[k].sig = s)
                 IN /\ ret'.op \in Subscriptions \cup Operators
                    /\ ret'.id = Top.id
                    /\ \E k \in 1..Len(subs) :
                          /\ subs[k].id = Top.id
                          /\ subs[k].count = 1
                          /\ subs[k].last = Cell(s).value
                    /\ signals'[s].broadcast.state =
                          IF outermost THEN "Idling" ELSE "Subscribing"
      ]_vars

\* A subscription has returned whose callback, while it was handed the value
\* at its registration, made two more subscriptions: the registry is idle and
\* each of the three callbacks has been invoked once, with the same value.
C30_Witness ==
    /\ Depth = 0 /\ ops = 3
    /\ ret.op \in Subscriptions
    /\ LET b == signals[ret.sig].broadcast
       IN /\ b.state = "Idling"
          /\ Len(b.subscribers) = 3
          /\ ret.id = b.subscribers[1].id
          /\ \A k \in 1..3 : /\ b.subscribers[k].count = 1
                              /\ b.subscribers[k].last = Cell(ret.sig).value

\* ------------------------------------------------------------------ C31
\* C31: whenever a step leaves the call stack empty without a panic (every
\* operation issued by the main line has returned, with Ok or with the
\* error), no data cell is borrowed and every broadcast is idling; a try_set
\* issued by the main line is not refused: it stores its value and starts the
\* notification pass; and a cell that holds a value never goes back to None.
C31_GuardReleased ==
    [][ /\ Len(stack') = 0 /\ ~panicked'
            => /\ \A c \in 1..Len(cells') :
                     ~cells'[c].mut /\ cells'[c].borrows = 0
               /\ \A s \in 1..Len(signals') :
                     signals'[s].broadcast.state = "Idling"
        /\ \A s \in 1..Len(signals) :
              Issued("try_set") /\ call'.sig = s /\ Depth = 0
              => /\ ~panicked'
                 /\ Len(stack') = 1 /\ stack'[1].kind = "notify"
                 /\ stack'[1].op = "try_set"
                 /\ cells'[signals[s].data].value = written'[s]
                 /\ written'[s] # None
        /\ \A c \in 1..Len(cells) :
              cells[c].value # None => cells'[c].value # None
      ]_vars

\* The main line's try_set has returned Ok from its pass, a write having been
\* refused inside a callback before; every broadcast is idling.
C31_Witness ==
    /\ Depth = 0 /\ ~panicked
    /\ ret.op = "try_set" /\ ret.res = "Ok" /\ ret.pass
    /\ refused # {}
    /\ ops >= 3
    /\ \A s \in 1..Len(signals) : signals[s].broadcast.state = "Idling"

\* ------------------------------------------------------------------ C32
\* C32: a relay of map, filter_map, map_while or fold that is handed a value
\* while its derived signal is alive never has its write refused: its step
\* does not panic.
C32_RelayWriteAccepted ==
    [][ /\ Depth > 0 /\ Top.kind = "cb" /\ Top.pc = "start" /\ ~panicked
        /\ Top.ckind \in {"map", "filter_map", "map_while", "fold"}
        => ~panicked'
      ]_vars

\* ------------------------------------------------------------------ C33
\* Signal d shares its data cell with another signal (d was made by filter,
\* or a filter was made from d).
SharesCell(d) ==
    \E y \in 1..Len(signals) : y # d /\ signals[y].data = signals[d].data

\* C33: for a signal x that shares its cell with another one, a subscription
\* on x gives the new entry the next id of x's own registry and leaves the
\* registry of every other signal as it was; a token that appears in the step
\* of a subscription on x, or at its return, names x and the id of that
\* entry; and an unsubscription by a token of x leaves the registry of every
\* other signal as it was.
C33_OwnSubscriberList ==
    [][ /\ (\E m \in Subscriptions : Issued(m)) /\ SharesCell(call'.sig)
            => LET x == call'.sig
                   subs == signals'[x].broadcast.subscribers
               IN /\ Len(subs) = Len(signals[x].broadcast.subscribers) + 1
                  /\ subs[Len(subs)].id = signals[x].broadcast.next_id
                  /\ \A y \in 1..Len(signals) :
                        y # x => signals'[y] = signals[y]
                  /\ \A t \in (Len(tokens) + 1)..Len(tokens') :
                        /\ tokens'[t].sig = x
                        /\ tokens'[t].id = subs[Len(subs)].id
        /\ ForEachReturns /\ Top.ckind = "user" /\ SharesCell(Top.sig)
            => \A t \in (Len(tokens) + 1)..Len(tokens') :
                  tokens'[t].sig = Top.sig /\ tokens'[t].id = Top.id
        /\ Issued("unsubscribe") /\ SharesCell(call'.sig)
            => LET x == call'.sig
               IN /\ \A y \in 1..Len(signals) :
                        y # x => signals'[y] = signals[y]
                  /\ \A k \in 1..Len(signals'[x].broadcast.subscribers) :
                        LET e == signals'[x].broadcast.subscribers[k]
                        IN e.id # ret'.id
                           => \E j \in 1..Len(signals[x].broadcast.subscribers) :
                                 signals[x].broadcast.subscribers[j] = e
      ]_vars

\* A token of the derived signal has cancelled the entry with id 0 of the
\* derived signal's list; the source's list still holds its own entry with
\* id 0, the relay, active.
C33_Witness ==
    /\ ret.op = "unsubscribe" /\ ret.res = "called" /\ ret.id = 0
    /\ ret.sig = 2 /\ Len(signals) = 2
    /\ signals[2].data = signals[1].data
    /\ 0 \notin Ids(signals[2].broadcast.subscribers)
    /\ \E k \in 1..Len(signals[1].broadcast.subscribers) :
          LET e == signals[1].broadcast.subscribers[k]
          IN e.id = 0 /\ e.active /\ e.ckind = "filter"

\* ------------------------------------------------------------------ C34
\* The step is a try_set on signal s, which holds no value yet, that starts
\* its notification pass.
FirstSet(s) ==
    /\ Issued("try_set") /\ call'.sig = s
    /\ Cell(s).value = None
    /\ Len(stack') = Depth + 1

\* C34: a subscription on a signal that holds no value returns at once
\* without invoking the new callback; when the first try_set on that signal
\* starts its pass, no subscriber of the signal has ever been invoked, and
\* the pass carries the value written; and at the end of the pass of a
\* try_set every remaining subscriber that had never been invoked when the
\* pass started has been invoked exactly once, in this pass, with that value.
C34_UninitSubscription ==
    [][ /\ \A s \in 1..Len(signals) :
              /\ (\E m \in Subscriptions : Issued(m)) /\ call'.sig = s
                     /\ Cell(s).value = None
                  => LET subs == signals'[s].broadcast.subscribers
                     IN /\ stack' = stack /\ cells' = cells
                        /\ ret'.op = call'.op /\ ret'.res = "Ok"
                        /\ subs[Len(subs)].id = ret'.id
                        /\ subs[Len(subs)].count = 0
              /\ FirstSet(s)
                  => LET subs == signals[s].broadcast.subscribers
                     IN /\ \A k \in 1..Len(subs) :
                              subs[k].count = 0 /\ subs[k].last = None
                        /\ stack'[Depth + 1].kind = "notify"
                        /\ stack'[Depth + 1].op = "try_set"
                        /\ stack'[Depth + 1].val = written'[s]
                        /\ stack'[Depth + 1].val # None
        /\ PassEnds /\ Top.op = "try_set"
              => LET subs == signals'[Top.sig].broadcast.subscribers
                     snap == Top.snap[Top.sig]
                 IN \A k \in 1..Len(subs), j \in 1..Len(snap) :
                       snap[j] = <<subs[k].id, 0>>
                       => /\ Occurrences(Top.seen, subs[k].id) = 1
                          /\ subs[k].count = 1
                          /\ subs[k].last = Top.val
      ]_vars

\* After a subscription and a try_set, in this order, on a signal created
\* without a value: the pass of the try_set has invoked the subscriber, for
\* the first time, with the value written.
C34_Witness ==
    /\ Depth = 0 /\ ops = 2
    /\ ret.op = "try_set" /\ ret.res = "Ok" /\ ret.pass
    /\ Len(ret.seen) = 1
    /\ LET subs == signals[ret.sig].broadcast.subscribers
       IN /\ Len(subs) = 1
          /\ subs[1].count = 1
          /\ subs[1].last = ret.val /\ ret.val = written[ret.sig]

\* ------------------------------------------------------------------ C35
\* The step is a try_set/try_mutate on signal s that returns the error.
WriteRejected(s) ==
    /\ (\E op \in Writes : Issued(op)) /\ call'.sig = s
    /\ ret'.op = call'.op /\ ret'.res = SignalUpdatingError
    /\ Len(stack') = Depth

\* C35: a try_set/try_mutate that returns the error leaves the data cell of
\* its signal (the value, or the absence of one, and the borrows), the
\* subscriber list with its entries, their order and their active flags,
\* the id counter and the state of the broadcast exactly as they were; no
\* closure was invoked and the value last written is the same.
C35_RejectedWriteFrame ==
    [][ \A s \in 1..Len(signals) :
          WriteRejected(s)
          => /\ cells'[signals[s].data] = Cell(s)
             /\ signals'[s].broadcast.subscribers = signals[s].broadcast.subscribers
             /\ signals'[s].broadcast.next_id = signals[s].broadcast.next_id
             /\ signals'[s].broadcast.state = signals[s].broadcast.state
             /\ signals'[s].broadcast.needs_retain = signals[s].broadcast.needs_retain
             /\ stack' = stack
             /\ written' = written
      ]_vars

\* A try_set was refused inside a callback that had unsubscribed another
\* subscriber: the value is the one the callback was handed, the cancelled
\* entry is still in the list, inactive.
C35_Witness ==
    /\ ret.op = "try_set" /\ ret.res = SignalUpdatingError /\ ~panicked
    /\ Depth > 0 /\ Top.kind = "cb" /\ Top.sig = ret.sig
    /\ Cell(ret.sig).value = Top.val
    /\ \E k \in 1..Len(signals[ret.sig].broadcast.subscribers) :
          ~signals[ret.sig].broadcast.subscribers[k].active

\* ------------------------------------------------------------------ C36
\* A callback of the registry of signal s is executing: it is on the call
\* stack, invoked by a notification pass or at its registration.
InCallback(s) ==
    \E k \in 1..Depth : stack[k].kind = "cb" /\ stack[k].sig = s

\* C36: in every step taken while a callback of a registry is executing, the
\* registry is not idling and every entry of its list stays at its index
\* with its id (the list may only grow at its end); an unsubscription on that
\* registry in such a step leaves the length of the list alone, and the entry
\* of that id is inactive afterwards; when a pass invokes an entry, every
\* index below the one it has reached was either invoked or passed over as
\* inactive, and the entry at that index is active, is the one invoked, and
\* has not been invoked in this pass before.
C36_NoRemovalInCallback ==
    [][ /\ \A s \in 1..Len(signals) :
              InCallback(s)
              => LET subs == signals[s].broadcast.subscribers
                     after == signals'[s].broadcast.subscribers
                 IN /\ signals[s].broadcast.state # "Idling"
                    /\ Len(after) >= Len(subs)
                    /\ \A k \in 1..Len(subs) : after[k].id = subs[k].id
                    /\ Issued("unsubscribe") /\ call'.sig = s
                        => /\ Len(after) = Len(subs)
                           /\ \A k \in 1..Len(subs) :
                                 after[k].active
                                   = (subs[k].active /\ subs[k].id # ret'.id)
        /\ PassInvokes
              => LET subs == signals[Top.sig].broadcast.subscribers
                 IN /\ Top.i = Len(Top.seen) +
                               Cardinality({k \in 1..Top.i : ~subs[k].active
                                              /\ Occurrences(Top.seen, subs[k].id) = 0})
                    /\ subs[Top.i + 1].active
                    /\ subs[Top.i + 1].id = stack'[Depth + 1].id
                    /\ Occurrences(Top.seen, subs[Top.i + 1].id) = 0
      ]_vars

\* A callback running at its registration has unsubscribed an entry of its
\* registry: the entry is still in the list, inactive.
C36_Witness ==
    /\ Depth > 0 /\ Top.kind = "cb" /\ Top.how = "subscribe"
    /\ ret.op = "unsubscribe" /\ ret.res = "called" /\ ret.sig = Top.sig
    /\ signals[Top.sig].broadcast.state = "Subscribing"
    /\ \E k \in 1..Len(signals[Top.sig].broadcast.subscribers) :
          LET e == signals[Top.sig].broadcast.subscribers[k]
          IN e.id = ret.id /\ ~e.active

\* ------------------------------------------------------------------ C37
\* C37: every value a subscriber of a signal made by filter is invoked with,
\* by a pass or at its registration, satisfies the predicate.
C37_FilterDeliversMatching ==
    \A k \in 1..Depth :
      /\ stack[k].kind = "cb" /\ stack[k].ckind = "user"
      /\ \E s \in 1..Len(signals) : stack[k].sig \in DerivedBy("filter", s)
      => FilterPredicate(stack[k].val)

\* ------------------------------------------------------------------ C38
\* The relay of a derived signal that has no strong reference left is about
\* to run on the value it was handed.
DeadRelayRuns ==
    /\ ~panicked
    /\ Depth > 0 /\ Top.kind = "cb" /\ Top.ckind \in Operators
    /\ Top.pc = "start"
    /\ StrongCount(Top.target) = 0
    /\ stack' # stack

\* C38: the relay of a derived signal whose last handle was dropped, run on
\* a value, writes nothing, starts no pass and does not panic: it returns
\* with its own entry unsubscribed and every other entry of the source as it
\* was; no pass ever invokes an entry that was unsubscribed before the pass
\* reached it; and at the end of a pass on the source no unsubscribed entry
\* is left in the list and every remaining one has been invoked once, with
\* the value of the pass.
C38_DeadRelayCancels ==
    [][ /\ DeadRelayRuns
            => LET s == Top.sig
                   subs == signals[s].broadcast.subscribers
                   after == signals'[s].broadcast.subscribers
               IN /\ ~panicked'
                  /\ cells' = cells /\ written' = written
                  /\ Len(stack') = Depth /\ stack'[Depth].pc = "called"
                  /\ [sig |-> s, id |-> Top.id, self |-> TRUE] \in cancelled'
                  /\ Len(after) = Len(subs)
                  /\ \A k \in 1..Len(subs) :
                        IF subs[k].id = Top.id
                        THEN ~after[k].active
                        ELSE after[k] = subs[k]
                  /\ \A y \in 1..Len(signals) : y # s => signals'[y] = signals[y]
        /\ PassInvokes => ~stack'[Depth + 1].stale
        /\ PassEnds
            => LET subs == signals'[Top.sig].broadcast.subscribers
               IN /\ \A c \in cancelled : c.sig = Top.sig => c.id \notin Ids(subs)
                  /\ \A k \in 1..Len(subs) :
                        /\ Occurrences(Top.seen, subs[k].id) = 1
                        /\ subs[k].last = Top.val
      ]_vars

\* A try_set on the source has returned after the last handle of the derived
\* signal was dropped: its pass invoked the relay, which unsubscribed itself
\* and is gone from the list, and then a subscriber registered after the
\* relay, with the value written; the derived signal's cell was not written.
C38_Witness ==
    /\ Depth = 0 /\ ~panicked
    /\ ret.op = "try_set" /\ ret.res = "Ok" /\ ret.pass /\ ret.sig = 1
    /\ StrongCount(2) = 0
    /\ Len(ret.seen) = 2
    /\ [sig |-> 1, id |-> ret.seen[1], self |-> TRUE] \in cancelled
    /\ Ids(signals[1].broadcast.subscribers) = {ret.seen[2]}
    /\ signals[1].broadcast.subscribers[1].ckind = "user"
    /\ signals[1].broadcast.subscribers[1].last = ret.val
    /\ cells[signals[2].data].value # MapFn(ret.val)

\* ------------------------------------------------------------------ C39
\* The running code is a caller's callback of a signal other than s, invoked
\* by a pass that runs, through relays, inside a notification pass of s.
InCascadeOf(s) ==
    /\ Depth > 1 /\ Top.kind = "cb" /\ Top.ckind = "user"
    /\ Top.how = "notify" /\ Top.sig # s
    /\ stack[Depth - 1].kind = "notify" /\ stack[Depth - 1].op = "relay"
    /\ \E k \in 1..(Depth - 2) :
          /\ stack[k].kind = "notify" /\ stack[k].sig = s
          /\ \A j \in (k + 1)..(Depth - 2) :
                stack[j].kind \in {"cb", "notify"}
                /\ (stack[j].kind = "cb" => stack[j].ckind \in Operators)

\* C39: a try_set/try_mutate on a signal issued by a callback of a signal
\* derived from it, while that callback runs inside the signal's own
\* notification pass, returns the error (and panics only in its unwrapping
\* form): no cell, no subscriber list and no frame of the call stack changes,
\* so the signal and every derived signal hold what they held.
C39_UpstreamWriteRejected ==
    [][ \A s \in 1..Len(signals) :
          (\E op \in Writes : Issued(op)) /\ call'.sig = s /\ InCascadeOf(s)
          => /\ ret'.op = call'.op /\ ret'.res = SignalUpdatingError
             /\ panicked' = call'.unwrap
             /\ UNCHANGED <<signals, cells, stack, written>>
             /\ <<Top.sig, Top.id>> \in refused'
      ]_vars

\* A try_set on the source was refused inside a callback of the second
\* derived signal of a chain, two relays below the source's pass; the
\* callback goes on, the derived signals holding the values of the cascade.
C39_Witness ==
    /\ ~panicked /\ Depth = 6
    /\ ret.op = "try_set" /\ ret.res = SignalUpdatingError /\ ret.sig = 1
    /\ stack[1].kind = "notify" /\ stack[1].sig = 1
    /\ Top.kind = "cb" /\ Top.ckind = "user" /\ Top.sig = 3
    /\ <<3, Top.id>> \in refused
    /\ Cell(2).value = MapFn(Cell(1).value)
    /\ Cell(3).value = MapFn(Cell(2).value)
    /\ Top.val = Cell(3).value

====
